---- MODULE Spec2Model ----
(***************************************************************************)
(* A model of codebox-api: the /exec frame codec between the gateway and   *)
(* the remote client, the in-process execution engine, the gateway's       *)
(* request handling and idle timer, the session working directory, the    *)
(* ExecResult views, the LocalBox singleton, the RemoteBox retries, the    *)
(* CodeBox factory, DockerBox construction, and the sessions of the        *)
(* earlier API (codeboxapi/box): kernel messages, start, stop and          *)
(* last_interaction.                                                       *)
(*                                                                         *)
(* Every part owns a group of variables and has a specification of its     *)
(* own; in a part's specification the other groups stay in their quiet     *)
(* (initial) value.  Text is modelled as sequences of one-character        *)
(* strings, so that framing, matching and substring tests are computed.    *)
(***************************************************************************)
EXTENDS Integers, Sequences, FiniteSets, TLC

VARIABLES
  \* ---- frame codec: gateway /exec response -> RemoteBox.stream_exec ----
  sentChunks,   \* the ExecChunks the gateway's event_stream has framed so far
  wire,         \* characters of the HTTP body written and not yet received
  bodyEnded,    \* the HTTP body has terminated
  buffer,       \* RemoteBox.stream_exec: the decoder's buffer
  yielded,      \* the ExecChunks the client generator has yielded
  \* ---- CodeBox.exec: flatten_exec_result over a chunk stream ----
  streamed,     \* the chunks the stream has yielded to the list comprehension
  execResult,   \* the ExecResult returned, NoResult before
  \* ---- LocalBox construction in one host process ----
  version,      \* the codeboxapi package the process imported, "none" before
  instance,     \* LocalBox._instance: None or the object recorded
  objects,      \* how many LocalBox objects object.__new__ has allocated
  inits,        \* how many times __init__ ran on a LocalBox object
  held,         \* per caller: the outcome of its last construction request
  requests,     \* construction requests made so far
  attrs,        \* the singleton's attributes: the __init__ run that made its
                \* kernel handle, and whether start() has set the session up
  \* ---- the session working directory ----
  files,        \* cwd: file name -> content, Absent when there is no such file
  lastDownload, \* what the last download(name) followed by .content gave
  \* ---- the gateway's idle timer (api.py lifespan) ----
  now,              \* the clock, in time units
  last_interaction, \* api.py: the global refreshed by get_codebox
  timeoutCfg,       \* CODEBOX_TIMEOUT as read by the timer task
  timerPc,          \* "unstarted", "sleeping", "returned" (disabled), "exited"
  wake,             \* when the timer task's asyncio.sleep(1) ends
  exitTime,         \* when exit(0) ran, -1 before
  exitCode,         \* the process exit code, -1 while it runs
  lastRequest,      \* the last request the gateway served: its endpoint and time
  \* ---- one exec on the in-process engine (LocalBox.stream_exec) ----
  call,         \* the arguments and the cell's behaviour, NoCall before
  cellPc,       \* the cell thread / shell process: "unstarted", "running", "done"
  emitted,      \* how many emissions of the script the cell has made
  stdoutBuf,    \* the StringIO installed as sys.stdout (bash: the stdout pipe)
  stderrBuf,    \* the StringIO installed as sys.stderr (bash: the stderr pipe)
  installed,    \* [out, err]: sys.stdout / sys.stderr is the buffer the exec reads
  pollPc,       \* where the polling loop stands
  snapshot,     \* the value the polling loop read with getvalue()
  queue,        \* stream_exec: the Queue between the polling thread and the generator
  delivered,    \* the chunks the consumer has received
  mainPc,       \* the generator: "idle", "consuming", "read_stdout", "read_stderr",
                \* "done" (end of stream), "raised" (an exception reached the consumer)
  deadlinePassed, \* the exec ran longer than its timeout and the deadline fired
  \* ---- the gateway's /exec requests on its one LocalBox (api.py exec) ----
  streams,      \* per request: the state of its event_stream / astream_exec
  sys_stdout,   \* what sys.stdout is: RealStdout, Replaced, or the request
                \* whose temp_output it is
  \* ---- one call on a RemoteBox (remote.py, the @retry decorators) ----
  remoteCall,   \* the operation called and the gateway's answers to its requests
  remotePc,     \* "idle", "attempting", "waiting", "generator" (a generator
                \* object returned, its body not started), "returned", "raised"
  attempts,     \* HTTP requests the call has made
  waits,        \* the seconds slept between attempts
  remoteOutcome, \* what the caller or consumer got: "none", "ok" or the exception
  \* ---- the host's file system as LocalBox's file operations see it ----
  disk,         \* absolute path -> content, Absent when there is no such file
  symlink,      \* the working directory holds `link`, a symlink to /out
  lastFileOp,    \* the last upload / download: its name, outcome and resolved path
  \* ---- CodeBox(...) as a factory (codebox.py CodeBox.__new__) ----
  environ,      \* os.environ["CODEBOX_API_KEY"], "unset" when it is not set
  localExists,  \* LocalBox._instance is set
  built,         \* the last CodeBox(...) evaluated: arguments, environment, outcome
  \* ---- the deprecated lifecycle API: start / status / stop ----
  kernelAlive,  \* box/local.py: self.kernel.is_alive()
  calls,         \* the lifecycle calls made, each with what it reported
  \* ---- CodeBox.keep_alive (codebox.py akeep_alive) ----
  minutes,      \* the argument of the call, -1 before the call
  pingPc,       \* the ping task: "unstarted", "ready", "sleeping", "finished"
  pingLog,      \* the times (s) at which healthcheck was called
  seconds,      \* the time since the call, in seconds
  returned,      \* keep_alive has returned to its caller
  \* ---- run / arun on the jupyter-gateway LocalBox (box/localbox.py) ----
  kernelScript, \* what happens to each submission: a reply or a lost connection
  runPc,        \* "idle", "entered", "receiving", "returned", "raised"
  retry,        \* the retry argument of the current (recursive) call
  submissions,  \* execute_requests sent for the call
  jupyterStarts, \* times self.start() / astart() ran during the call
  runResult,     \* the CodeBoxOutput type returned or the exception raised
  runCode,       \* the code argument of the current (recursive) call
  runFile,       \* the file_path argument of the current (recursive) call
  runCall,       \* the arguments the caller gave
  \* ---- DockerBox construction on one host (docker.py) ----
  busy,         \* host ports other processes listen on
  boxes,         \* the DockerBox(...) calls made: argument, outcome, port
  \* ---- the same call made on stream_exec / upload and on its async form ----
  parity,        \* the call and what the sync and the async form gave
  \* ---- the kernel's messages on the websocket (box/localbox.py run) ----
  unread,       \* messages the kernel has sent and no run has received yet
  sent,         \* execute_requests sent on the websocket
  msg_id,       \* the msg_id of the run in its receive loop, 0 when none is
  result,       \* the run's `result`: the messages added to it so far
  outputs,       \* the CodeBoxOutputs returned, each with the messages it is made of
  \* ---- stream_run on the jupyter-client LocalBox (box/local.py) ----
  msg_queue,    \* stream_run: the Queue filled by output_hook
  streamMode,   \* "none" before the call, then "sync" (stream_run) or "async"
  executing,    \* execute_interactive has been called and has not returned
  streamPc,     \* the generator: "idle", "running" (at the loop test),
                \* "waiting" (in msg_queue.get()), "ended", "raised"
  consumed,      \* the messages taken from the queue, each with what was yielded
  \* ---- session start: the readiness probe (box/localbox.py, docker.py) ----
  startKind,    \* "none", "start", "astart" (LocalBox) or "docker" (DockerBox)
  startPc,      \* "idle", "probe", "sleep", "connect", "ws", "started", "raised"
  waited,       \* seconds slept since the call, counted up to MaxWait
  tries,         \* failed attempts of the current loop of _connect
  \* ---- the kernel gateways of one LocalBox (box/localbox.py start, stop) ----
  running,      \* pids of the gateway subprocesses that are running
  jupyter,      \* self.jupyter: the pid of the last Popen, None after stop
  jupyter_pids, \* LocalBox._jupyter_pids
  ws,           \* self.ws: the websocket connection, None when there is none
  openSockets,  \* websocket connections opened and not closed
  aiohttp_session, \* self.aiohttp_session: set by astart, None after astop
  openSessions, \* aiohttp ClientSessions created and not closed
  lastOp,        \* the last call that returned: "none", "start", "stop"
  \* ---- a client session and its last_interaction (box/base.py) ----
  boxKind,      \* "none" before construction, then "remote" or "local"
  hasSessionId, \* RemoteBox: session_id is no longer the temporary id
  wall,         \* datetime.now()
  box_last_interaction, \* BaseBox.last_interaction
  lastCall,      \* the last public operation called: its name and time
  \* ---- RemoteFile.aget_content on one RemoteFile (types.py) ----
  content_,     \* RemoteFile._content: NoContent (None) or the bytes so far
  agets,         \* per caller: where its aget_content stands and what it returned
  \* ---- RemoteBox.astream_exec and the 'loop is closed' error (remote.py) ----
  aexecPc,      \* "idle", "streaming", "sleeping", "done", "raised"
  posts,        \* POST /exec requests made for the call, counted up to MaxPosts
  given,        \* chunks the consumer has received from the call
  lateRestart,   \* the code was submitted again after chunks had been delivered

  \* RemoteBox and the session the server allocated for it
  rbPc,            \* "none" before construction, "idle", "polling" inside start
  rbSessionId,     \* self.session_id
  rbAllocated,     \* ids the server handed out on /codebox/start for this box
  rbRequestedWith, \* values of self.session_id at the /codebox/start requests
  rbAssigned,      \* the first id that replaced the temporary one
  rbStarts,        \* start()/astart() calls made
  rbPolls,         \* status polls of the running start call
  rbAsync,         \* the last start call was astart
  serverStatus,     \* what GET /codebox/{id}/ answers

  \* the remote CodeBox client of codeboxapi/box/codebox.py
  cbClock,           \* datetime.now()
  cbSessionId,       \* self.session_id: None or the id the server gave
  cbLastInteraction, \* self.last_interaction
  cbCall,             \* the last request: operation, id and last_interaction
                     \* at the call, and how it ended

  \* utils.raise_timeout around a synchronous operation of LocalBox
  alarmPc,      \* "idle", "running", "finished", "timed_out"
  alarmOp,      \* the operation: stream_exec, upload, stream_download
  alarmTimeout, \* its timeout argument, in time units, or NoTimeout
  alarmLeft,    \* time units until SIGALRM is delivered, 0: no alarm pending
  alarmElapsed,  \* time units the operation has been running

  \* the bash kernel: the shell process and the driver that reads its pipes
  command,   \* the writes the command makes, in order: "out" or "err" lines
  written_,  \* how many of them the process has made
  childPc,   \* "none", "running", "exited"
  outPipe,   \* lines in the stdout pipe
  errPipe,   \* lines in the stderr pipe
  driverPc,  \* "idle", "read_stdout", "read_stderr", "done"
  bashChunks \* the chunks the driver has yielded

framingVars == <<sentChunks, wire, bodyEnded, buffer, yielded>>
resultVars == <<streamed, execResult>>
singletonVars == <<version, instance, objects, inits, held, requests, attrs>>
filesVars == <<files, lastDownload>>
idleVars == <<now, last_interaction, timeoutCfg, timerPc, wake, exitTime, exitCode,
              lastRequest>>

execVars == <<call, cellPc, emitted, stdoutBuf, stderrBuf, installed, pollPc,
              snapshot, queue, delivered, mainPc, deadlinePassed>>

gatewayVars == <<streams, sys_stdout>>

remoteVars == <<remoteCall, remotePc, attempts, waits, remoteOutcome>>

pathVars == <<disk, symlink, lastFileOp>>

factoryVars == <<environ, localExists, built>>

lifecycleVars == <<kernelAlive, calls>>

keepAliveVars == <<minutes, pingPc, pingLog, seconds, returned>>

kernelVars ==
  <<kernelScript, runPc, retry, submissions, jupyterStarts, runResult, runCode,
    runFile, runCall>>

dockerVars == <<busy, boxes>>

parityVars == <<parity>>

msgVars == <<unread, sent, msg_id, result, outputs>>

streamRunVars == <<msg_queue, streamMode, executing, streamPc, consumed>>

startVars == <<startKind, startPc, waited, tries>>

stopVars == <<running, jupyter, jupyter_pids, ws, openSockets, aiohttp_session,
              openSessions, lastOp>>

sessionVars == <<boxKind, hasSessionId, wall, box_last_interaction, lastCall>>

contentVars == <<content_, agets>>

aexecVars == <<aexecPc, posts, given, lateRestart>>

sessionIdVars == <<rbPc, rbSessionId, rbAllocated, rbRequestedWith,
                   rbAssigned, rbStarts, rbPolls, rbAsync, serverStatus>>

clientVars == <<cbClock, cbSessionId, cbLastInteraction, cbCall>>

alarmVars == <<alarmPc, alarmOp, alarmTimeout, alarmLeft, alarmElapsed>>

pipeVars == <<command, written_, childPc, outPipe, errPipe, driverPc, bashChunks>>

vars ==
  <<framingVars, resultVars, singletonVars, filesVars, idleVars, execVars,
    gatewayVars, remoteVars, pathVars, factoryVars, lifecycleVars,
    keepAliveVars, kernelVars, dockerVars, parityVars, msgVars, streamRunVars,
    startVars, stopVars, sessionVars, contentVars, aexecVars, sessionIdVars,
    clientVars, alarmVars, pipeVars>>

(***************************************************************************)
(* Bounds of the model.                                                    *)
(***************************************************************************)
MaxChunks == 2      \* chunks framed by one /exec response
MaxStreamed == 3    \* chunks of the stream that exec flattens
MaxCallers == 3     \* places of the host program that hold a LocalBox reference
MaxRequests == 4    \* construction requests in one process
UnitsPerSecond == 2 \* resolution of the model's clock
MaxTimeout == 4     \* largest CODEBOX_TIMEOUT of the model, in time units
MaxTime == 9        \* the clock stops here
MaxEmit == 2        \* emissions (prints, images, stderr writes) of one cell
MaxExecRequests == 2 \* /exec requests the gateway receives
MaxWrites == 2      \* prints of the cell of one /exec request
MaxAnswers == 4     \* requests of one RemoteBox call the gateway has an answer for
MaxCalls == 4       \* lifecycle calls (start, status, stop) on one session
MaxMinutes == 3     \* largest argument of keep_alive
MaxSubmissions == 4 \* submissions of one run the kernel has a fate for
MaxPingSeconds == 2 \* longest healthcheck, in seconds
MaxPortOffset == 2  \* host ports DefaultPort .. DefaultPort + MaxPortOffset can be taken
MaxBoxes == 3       \* DockerBox constructions on the host
MaxErrLen == 3      \* characters of the text of a cell's error or result
MaxRuns == 2        \* run calls on one websocket
MaxOutputs == 2     \* output messages the kernel sends for one request
MaxHooked == 2      \* messages output_hook receives during one stream_run
MaxWait == 7        \* the seconds a start has slept are counted up to here
MaxStarts == 3      \* times start() runs on one LocalBox
MaxWall == 3        \* the wall clock of a client session stops here
MaxFileChunks == 2  \* chunks astream_download yields for the file
MaxGetters == 3     \* aget_content calls on one RemoteFile
MaxPosts == 6       \* the POST /exec requests of one astream_exec are counted up to here
MaxGiven == 4       \* chunks one astream_exec delivers

(***************************************************************************)
(* Helpers on text.                                                        *)
(***************************************************************************)
OccursAt(s, p, i) ==
  /\ i >= 1
  /\ i + Len(p) - 1 <= Len(s)
  /\ SubSeq(s, i, i + Len(p) - 1) = p

Contains(s, p) == \E i \in 1..(Len(s) + 1) : OccursAt(s, p, i)

Min(S) == CHOOSE x \in S : \A y \in S : x <= y

IsPrefix(p, s) == Len(p) <= Len(s) /\ SubSeq(s, 1, Len(p)) = p

(***************************************************************************)
(* ExecChunk and the wire frames.                                          *)
(***************************************************************************)
ChunkTypes == {"txt", "img", "err"}

TypeChars(t) ==
  CASE t = "txt" -> <<"t", "x", "t">>
    [] t = "img" -> <<"i", "m", "g">>
    [] t = "err" -> <<"e", "r", "r">>

OpenTag(t) == <<"<">> \o TypeChars(t) \o <<">">>

CloseTag(t) == <<"<", "/">> \o TypeChars(t) \o <<">">>

ExecChunk(t, c) == [type |-> t, content |-> c]

\* api.py: yield f"<{chunk.type}>{chunk.content}</{chunk.type}>"
EncodeFrame(chunk) ==
  OpenTag(chunk.type) \o chunk.content \o CloseTag(chunk.type)

NoMatch == [matched |-> FALSE]

\* re.match(r"<(txt|img|err)>(.*?)</\1>", buffer, re.DOTALL): anchored at the
\* start of the buffer, the payload is the shortest one followed by the closing
\* tag of the SAME type (back-reference \1); any character may be in the payload.
ReMatchAnyClose(buf) ==
  LET ts == {t \in ChunkTypes : IsPrefix(OpenTag(t), buf)}
  IN  IF ts = {} THEN NoMatch
      ELSE LET t  == CHOOSE x \in ts : TRUE
               ks == {i \in 6..Len(buf) :
                        \E u \in ChunkTypes : OccursAt(buf, CloseTag(u), i)}
           IN  IF ks = {} THEN NoMatch
               ELSE [matched |-> TRUE, type |-> t,
                     content |-> SubSeq(buf, 6, Min(ks) - 1),
                     end |-> Min(ks) + 5]

ReMatch(buf) ==
  LET ts == {t \in ChunkTypes : IsPrefix(OpenTag(t), buf)}
  IN  IF ts = {} THEN NoMatch
      ELSE LET t  == CHOOSE x \in ts : TRUE
               ks == {i \in 6..Len(buf) : OccursAt(buf, CloseTag(t), i)}
           IN  IF ks = {} THEN NoMatch
               ELSE [matched |-> TRUE, type |-> t,
                     content |-> SubSeq(buf, 6, Min(ks) - 1),
                     end |-> Min(ks) + 5]

\* while match := re.match(...): yield ExecChunk(t, c); buffer = buffer[end:]
RECURSIVE Drain(_, _)
Drain(buf, out) ==
  LET m == ReMatch(buf)
  IN  IF m.matched
        THEN Drain(SubSeq(buf, m.end + 1, Len(buf)),
                   Append(out, ExecChunk(m.type, m.content)))
        ELSE [buffer |-> buf, out |-> out]

(***************************************************************************)
(* The chunks an exec may produce in this model: plain text, an empty      *)
(* payload, a payload ending in the beginning of its own closing tag, the  *)
(* closing and the opening tag of ANOTHER type inside a payload, and one   *)
(* payload that contains the closing tag of its own type.                  *)
(***************************************************************************)
Chunks ==
  { ExecChunk("txt", <<"a">>),
    ExecChunk("txt", <<"<", "/", "t", "x">>),
    ExecChunk("img", CloseTag("txt")),
    ExecChunk("img", OpenTag("txt")),
    ExecChunk("err", <<>>),
    ExecChunk("txt", <<"a">> \o CloseTag("txt")) }

\* the payload does not contain the closing tag of its own type
WellFormed(chunk) == ~Contains(chunk.content, CloseTag(chunk.type))

(***************************************************************************)
(* Frame codec: actions.                                                   *)
(***************************************************************************)
RealStdout == 0

Replaced == -1

NotArrived == [pc |-> "none", len |-> 0, written |-> 0, cellDone |-> FALSE,
               temp_output |-> <<>>, old_stdout |-> RealStdout, sent |-> <<>>]

NoResult == [done |-> FALSE]

\* Python's None for an object reference (object ids start at 1)
None == 0

NotRequested == [state |-> "none", ref |-> None]

Callers == 1..MaxCallers

\* file names (relative to cwd) and file contents (bytes) used in the model
FileNames == { <<"a">>, <<"b">>, <<"a", "b">>, <<"a", " ", "b">> }

FileContents == { <<>>, <<1>>, <<2, 3>> }

Absent == <<-1>>

NoDownload == [name |-> <<>>, outcome |-> "none", path |-> <<>>,
               content |-> Absent, expected |-> Absent]

NoRequest == [endpoint |-> "none", at |-> 0]

NoCall == [mode |-> "none", kernel |-> "none", timeout |-> -1,
           script |-> <<>>, outcome |-> "none"]

NoRemoteCall == [op |-> "none", answers |-> <<>>]

\* the files of the model's host: /w/a in the working directory /w, /x beside
\* it, /out/x in another directory that holds a file of the host
DiskPaths == { <<"w", "a">>, <<"x">>, <<"out", "x">> }

HostContent == <<9>>

NoFileOp == [op |-> "none", name |-> <<>>, outcome |-> "none", path |-> <<>>,
             content |-> Absent]

NotBuilt == [api_key |-> "unset", env |-> "unset", existing |-> FALSE,
             outcome |-> "none"]

\* RemoteFile._content is None
NoContent == <<0>>

Getters == 1..MaxGetters

NotCalled == [pc |-> "idle", got |-> 0, value |-> NoContent]

\* The state after construction: nothing framed or received, no stream
\* flattened, no package imported and no LocalBox requested, an empty working
\* directory, the gateway module imported (last_interaction = utcnow()) and its
\* lifespan not yet entered, no exec called.
\* uuid4().hex of RemoteBox.__init__, and the ids the server knows; the ids
\* travel as UUID(int=id).hex and back as UUID(hex).int, a bijection on them.
TempId == "temp"
SessionIds == {"s1", "s2", "s3"}

\* no request was made on the client yet
NotAsked == [op |-> "none", id |-> None, before |-> 0, at |-> 0, outcome |-> "none"]

\* timeout: float | None = None
NoTimeout == -1

Init ==
  /\ sentChunks = <<>>
  /\ wire = <<>>
  /\ bodyEnded = FALSE
  /\ buffer = <<>>
  /\ yielded = <<>>
  /\ streamed = <<>>
  /\ execResult = NoResult
  /\ version = "none"
  /\ instance = None
  /\ objects = 0
  /\ inits = 0
  /\ held = [c \in Callers |-> NotRequested]
  /\ requests = 0
  /\ attrs = [kernel |-> 0, started |-> FALSE]
  /\ files = [n \in FileNames |-> Absent]
  /\ lastDownload = NoDownload
  /\ now = 0
  /\ last_interaction = 0
  /\ timeoutCfg = [disabled |-> FALSE, units |-> 0, env |-> <<"0">>]
  /\ timerPc = "unstarted"
  /\ wake = 0
  /\ exitTime = -1
  /\ exitCode = -1
  /\ lastRequest = NoRequest
  /\ call = NoCall
  /\ cellPc = "unstarted"
  /\ emitted = 0
  /\ stdoutBuf = <<>>
  /\ stderrBuf = <<>>
  /\ installed = [out |-> FALSE, err |-> FALSE]
  /\ pollPc = "unstarted"
  /\ snapshot = <<>>
  /\ queue = <<>>
  /\ delivered = <<>>
  /\ mainPc = "idle"
  /\ deadlinePassed = FALSE
  /\ streams = [r \in 1..MaxExecRequests |-> NotArrived]
  /\ sys_stdout = RealStdout
  /\ remoteCall = NoRemoteCall
  /\ remotePc = "idle"
  /\ attempts = 0
  /\ waits = <<>>
  /\ remoteOutcome = "none"
  /\ disk = [p \in DiskPaths |-> IF p = <<"out", "x">> THEN HostContent ELSE Absent]
  /\ symlink = FALSE
  /\ lastFileOp = NoFileOp
  /\ environ = "unset"
  /\ localExists = FALSE
  /\ built = NotBuilt
  /\ kernelAlive = FALSE
  /\ calls = <<>>
  /\ minutes = -1
  /\ pingPc = "unstarted"
  /\ pingLog = <<>>
  /\ seconds = 0
  /\ returned = FALSE
  /\ kernelScript = <<>>
  /\ runPc = "idle"
  /\ retry = 0
  /\ submissions = 0
  /\ jupyterStarts = 0
  /\ runResult = "none"
  /\ runCode = ""
  /\ runFile = "none"
  /\ runCall = [code |-> "", file_path |-> "none"]
  /\ busy = {}
  /\ boxes = <<>>
  /\ parity = [op |-> "none", arg |-> <<>>, sync |-> <<>>, async |-> <<>>]
  /\ unread = <<>>
  /\ sent = 0
  /\ msg_id = 0
  /\ result = <<>>
  /\ outputs = <<>>
  /\ msg_queue = <<>>
  /\ streamMode = "none"
  /\ executing = FALSE
  /\ streamPc = "idle"
  /\ consumed = <<>>
  /\ startKind = "none"
  /\ startPc = "idle"
  /\ waited = 0
  /\ tries = 0
  /\ running = {}
  /\ jupyter = None
  /\ jupyter_pids = <<>>
  /\ ws = None
  /\ openSockets = {}
  /\ aiohttp_session = None
  /\ openSessions = {}
  /\ lastOp = "none"
  /\ boxKind = "none"
  /\ hasSessionId = FALSE
  /\ wall = 0
  /\ box_last_interaction = 0
  /\ lastCall = [op |-> "none", at |-> 0]
  /\ content_ = NoContent
  /\ agets = [c \in Getters |-> NotCalled]
  /\ aexecPc = "idle"
  /\ posts = 0
  /\ given = 0
  /\ lateRestart = FALSE
  /\ rbPc = "none"
  /\ rbSessionId = TempId
  /\ rbAllocated = {}
  /\ rbRequestedWith = {}
  /\ rbAssigned = TempId
  /\ rbStarts = 0
  /\ rbPolls = 0
  /\ rbAsync = FALSE
  /\ serverStatus = "started"
  /\ cbClock = 0
  /\ cbSessionId = None
  /\ cbLastInteraction = 0
  /\ cbCall = NotAsked
  /\ alarmPc = "idle"
  /\ alarmOp = "none"
  /\ alarmTimeout = NoTimeout
  /\ alarmLeft = 0
  /\ alarmElapsed = 0
  /\ command = <<>>
  /\ written_ = 0
  /\ childPc = "none"
  /\ outPipe = <<>>
  /\ errPipe = <<>>
  /\ driverPc = "idle"
  /\ bashChunks = <<>>

exceptFraming ==
  <<resultVars, singletonVars, filesVars, idleVars, execVars, gatewayVars,
    remoteVars, pathVars, factoryVars, lifecycleVars, keepAliveVars,
    kernelVars, dockerVars, parityVars, msgVars, streamRunVars, startVars,
    stopVars, sessionVars, contentVars, aexecVars, sessionIdVars, clientVars,
    alarmVars, pipeVars>>
exceptResult ==
  <<framingVars, singletonVars, filesVars, idleVars, execVars, gatewayVars,
    remoteVars, pathVars, factoryVars, lifecycleVars, keepAliveVars,
    kernelVars, dockerVars, parityVars, msgVars, streamRunVars, startVars,
    stopVars, sessionVars, contentVars, aexecVars, sessionIdVars, clientVars,
    alarmVars, pipeVars>>
exceptSingleton ==
  <<framingVars, resultVars, filesVars, idleVars, execVars, gatewayVars,
    remoteVars, pathVars, factoryVars, lifecycleVars, keepAliveVars,
    kernelVars, dockerVars, parityVars, msgVars, streamRunVars, startVars,
    stopVars, sessionVars, contentVars, aexecVars, sessionIdVars, clientVars,
    alarmVars, pipeVars>>
exceptFiles ==
  <<framingVars, resultVars, singletonVars, idleVars, execVars, gatewayVars,
    remoteVars, pathVars, factoryVars, lifecycleVars, keepAliveVars,
    kernelVars, dockerVars, parityVars, msgVars, streamRunVars, startVars,
    stopVars, sessionVars, contentVars, aexecVars, sessionIdVars, clientVars,
    alarmVars, pipeVars>>
exceptIdle ==
  <<framingVars, resultVars, singletonVars, filesVars, execVars, gatewayVars,
    remoteVars, pathVars, factoryVars, lifecycleVars, keepAliveVars,
    kernelVars, dockerVars, parityVars, msgVars, streamRunVars, startVars,
    stopVars, sessionVars, contentVars, aexecVars, sessionIdVars, clientVars,
    alarmVars, pipeVars>>
exceptExec ==
  <<framingVars, resultVars, singletonVars, filesVars, idleVars, gatewayVars,
    remoteVars, pathVars, factoryVars, lifecycleVars, keepAliveVars,
    kernelVars, dockerVars, parityVars, msgVars, streamRunVars, startVars,
    stopVars, sessionVars, contentVars, aexecVars, sessionIdVars, clientVars,
    alarmVars, pipeVars>>
exceptGateway ==
  <<framingVars, resultVars, singletonVars, filesVars, execVars, remoteVars,
    pathVars, factoryVars, lifecycleVars, keepAliveVars, kernelVars,
    dockerVars, parityVars, msgVars, streamRunVars, startVars, stopVars,
    sessionVars, contentVars, aexecVars, sessionIdVars, clientVars, alarmVars,
    pipeVars>>
exceptRemote ==
  <<framingVars, resultVars, singletonVars, filesVars, idleVars, execVars,
    gatewayVars, pathVars, factoryVars, lifecycleVars, keepAliveVars,
    kernelVars, dockerVars, parityVars, msgVars, streamRunVars, startVars,
    stopVars, sessionVars, contentVars, aexecVars, sessionIdVars, clientVars,
    alarmVars, pipeVars>>
exceptPath ==
  <<framingVars, resultVars, singletonVars, filesVars, idleVars, execVars,
    gatewayVars, remoteVars, factoryVars, lifecycleVars, keepAliveVars,
    kernelVars, dockerVars, parityVars, msgVars, streamRunVars, startVars,
    stopVars, sessionVars, contentVars, aexecVars, sessionIdVars, clientVars,
    alarmVars, pipeVars>>
exceptFactory ==
  <<framingVars, resultVars, singletonVars, filesVars, idleVars, execVars,
    gatewayVars, remoteVars, pathVars, lifecycleVars, keepAliveVars,
    kernelVars, dockerVars, parityVars, msgVars, streamRunVars, startVars,
    stopVars, sessionVars, contentVars, aexecVars, sessionIdVars, clientVars,
    alarmVars, pipeVars>>
exceptLifecycle ==
  <<framingVars, resultVars, singletonVars, filesVars, idleVars, execVars,
    gatewayVars, remoteVars, pathVars, factoryVars, keepAliveVars, kernelVars,
    dockerVars, parityVars, msgVars, streamRunVars, startVars, stopVars,
    sessionVars, contentVars, aexecVars, sessionIdVars, clientVars, alarmVars,
    pipeVars>>
exceptKeepAlive ==
  <<framingVars, resultVars, singletonVars, filesVars, idleVars, execVars,
    gatewayVars, remoteVars, pathVars, factoryVars, lifecycleVars, kernelVars,
    dockerVars, parityVars, msgVars, streamRunVars, startVars, stopVars,
    sessionVars, contentVars, aexecVars, sessionIdVars, clientVars, alarmVars,
    pipeVars>>
exceptKernel ==
  <<framingVars, resultVars, singletonVars, filesVars, idleVars, execVars,
    gatewayVars, remoteVars, pathVars, factoryVars, lifecycleVars,
    keepAliveVars, dockerVars, parityVars, msgVars, streamRunVars, startVars,
    stopVars, sessionVars, contentVars, aexecVars, sessionIdVars, clientVars,
    alarmVars, pipeVars>>
exceptDocker ==
  <<framingVars, resultVars, singletonVars, filesVars, idleVars, execVars,
    gatewayVars, remoteVars, pathVars, factoryVars, lifecycleVars,
    keepAliveVars, kernelVars, parityVars, msgVars, streamRunVars, startVars,
    stopVars, sessionVars, contentVars, aexecVars, sessionIdVars, clientVars,
    alarmVars, pipeVars>>
exceptParity ==
  <<framingVars, resultVars, singletonVars, filesVars, idleVars, execVars,
    gatewayVars, remoteVars, pathVars, factoryVars, lifecycleVars,
    keepAliveVars, kernelVars, dockerVars, msgVars, streamRunVars, startVars,
    stopVars, sessionVars, contentVars, aexecVars, sessionIdVars, clientVars,
    alarmVars, pipeVars>>
exceptMsg ==
  <<framingVars, resultVars, singletonVars, filesVars, idleVars, execVars,
    gatewayVars, remoteVars, pathVars, factoryVars, lifecycleVars,
    keepAliveVars, kernelVars, dockerVars, parityVars, streamRunVars,
    startVars, stopVars, sessionVars, contentVars, aexecVars, sessionIdVars,
    clientVars, alarmVars, pipeVars>>
exceptStreamRun ==
  <<framingVars, resultVars, singletonVars, filesVars, idleVars, execVars,
    gatewayVars, remoteVars, pathVars, factoryVars, lifecycleVars,
    keepAliveVars, kernelVars, dockerVars, parityVars, msgVars, startVars,
    stopVars, sessionVars, contentVars, aexecVars, sessionIdVars, clientVars,
    alarmVars, pipeVars>>
exceptStart ==
  <<framingVars, resultVars, singletonVars, filesVars, idleVars, execVars,
    gatewayVars, remoteVars, pathVars, factoryVars, lifecycleVars,
    keepAliveVars, kernelVars, dockerVars, parityVars, msgVars, streamRunVars,
    stopVars, sessionVars, contentVars, aexecVars, sessionIdVars, clientVars,
    alarmVars, pipeVars>>
exceptStop ==
  <<framingVars, resultVars, singletonVars, filesVars, idleVars, execVars,
    gatewayVars, remoteVars, pathVars, factoryVars, lifecycleVars,
    keepAliveVars, kernelVars, dockerVars, parityVars, msgVars, streamRunVars,
    startVars, sessionVars, contentVars, aexecVars, sessionIdVars, clientVars,
    alarmVars, pipeVars>>
exceptSession ==
  <<framingVars, resultVars, singletonVars, filesVars, idleVars, execVars,
    gatewayVars, remoteVars, pathVars, factoryVars, lifecycleVars,
    keepAliveVars, kernelVars, dockerVars, parityVars, msgVars, streamRunVars,
    startVars, stopVars, contentVars, aexecVars, sessionIdVars, clientVars,
    alarmVars, pipeVars>>
exceptContent ==
  <<framingVars, resultVars, singletonVars, filesVars, idleVars, execVars,
    gatewayVars, remoteVars, pathVars, factoryVars, lifecycleVars,
    keepAliveVars, kernelVars, dockerVars, parityVars, msgVars, streamRunVars,
    startVars, stopVars, sessionVars, aexecVars, sessionIdVars, clientVars,
    alarmVars, pipeVars>>
exceptAexec ==
  <<framingVars, resultVars, singletonVars, filesVars, idleVars, execVars,
    gatewayVars, remoteVars, pathVars, factoryVars, lifecycleVars,
    keepAliveVars, kernelVars, dockerVars, parityVars, msgVars, streamRunVars,
    startVars, stopVars, sessionVars, contentVars, sessionIdVars, clientVars,
    alarmVars, pipeVars>>
exceptSessionId ==
  <<framingVars, resultVars, singletonVars, filesVars, idleVars, execVars,
    gatewayVars, remoteVars, pathVars, factoryVars, lifecycleVars,
    keepAliveVars, kernelVars, dockerVars, parityVars, msgVars, streamRunVars,
    startVars, stopVars, sessionVars, contentVars, aexecVars, clientVars,
    alarmVars, pipeVars>>
exceptClient ==
  <<framingVars, resultVars, singletonVars, filesVars, idleVars, execVars,
    gatewayVars, remoteVars, pathVars, factoryVars, lifecycleVars,
    keepAliveVars, kernelVars, dockerVars, parityVars, msgVars, streamRunVars,
    startVars, stopVars, sessionVars, contentVars, aexecVars, sessionIdVars,
    alarmVars, pipeVars>>
exceptAlarm ==
  <<framingVars, resultVars, singletonVars, filesVars, idleVars, execVars,
    gatewayVars, remoteVars, pathVars, factoryVars, lifecycleVars,
    keepAliveVars, kernelVars, dockerVars, parityVars, msgVars, streamRunVars,
    startVars, stopVars, sessionVars, contentVars, aexecVars, sessionIdVars,
    clientVars, pipeVars>>
exceptPipe ==
  <<framingVars, resultVars, singletonVars, filesVars, idleVars, execVars,
    gatewayVars, remoteVars, pathVars, factoryVars, lifecycleVars,
    keepAliveVars, kernelVars, dockerVars, parityVars, msgVars, streamRunVars,
    startVars, stopVars, sessionVars, contentVars, aexecVars, sessionIdVars,
    clientVars, alarmVars>>

\* api.py event_stream: one chunk of astream_exec is framed and written
GatewayYield(c) ==
  /\ ~bodyEnded
  /\ Len(sentChunks) < MaxChunks
  /\ sentChunks' = Append(sentChunks, c)
  /\ wire' = wire \o EncodeFrame(c)
  /\ UNCHANGED <<bodyEnded, buffer, yielded, exceptFraming>>

\* api.py event_stream is exhausted: the HTTP body terminates
GatewayEnd ==
  /\ ~bodyEnded
  /\ bodyEnded' = TRUE
  /\ UNCHANGED <<sentChunks, wire, buffer, yielded, exceptFraming>>

\* remote.py: one iteration of `for chunk in response.iter_text()`, the HTTP
\* chunk being the next n characters of the body
ClientRecv(n) ==
  /\ n \in 1..Len(wire)
  /\ LET d == Drain(buffer \o SubSeq(wire, 1, n), <<>>)
     IN  /\ buffer' = d.buffer
         /\ yielded' = yielded \o d.out
  /\ wire' = SubSeq(wire, n + 1, Len(wire))
  /\ UNCHANGED <<sentChunks, bodyEnded, exceptFraming>>

FramingNext ==
  \/ \E c \in Chunks : GatewayYield(c)
  \/ GatewayEnd
  \/ \E n \in 1..Len(wire) : ClientRecv(n)

SpecFraming == Init /\ [][FramingNext]_vars

StreamComplete == bodyEnded /\ wire = <<>>

AllWellFormed == \A i \in 1..Len(sentChunks) : WellFormed(sentChunks[i])

\* C1: when no payload contains the closing tag of its own type, the client
\* has, at every moment, yielded a prefix of the chunks the gateway framed, and
\* once the whole body is received it has yielded exactly those chunks (same
\* types, same contents, same order) with nothing left in the buffer, however
\* the body was cut into HTTP chunks.
C1_FramingRoundTrip ==
  AllWellFormed =>
    /\ IsPrefix(yielded, sentChunks)
    /\ StreamComplete => (yielded = sentChunks /\ buffer = <<>>)

\* C1 witness: a complete stream of MaxChunks well-formed chunks, one of them
\* carrying the closing tag of another type, has been decoded
C1_Witness ==
  /\ StreamComplete
  /\ AllWellFormed
  /\ Len(sentChunks) = MaxChunks
  /\ yielded = sentChunks
  /\ \E i \in 1..Len(sentChunks) : Contains(sentChunks[i].content, <<"<", "/">>)
  /\ \E i \in 1..Len(sentChunks) : sentChunks[i].type = "img"

\* C24: after the decoder has processed a network chunk, its buffer holds no
\* complete frame <t>payload</t>, at its start or after bytes that do not
\* form a frame.
C24_NoFrameLeftInBuffer ==
  \A i \in 1..Len(buffer) : ~ReMatch(SubSeq(buffer, i, Len(buffer))).matched

(***************************************************************************)
(* ExecResult: the three views of a chunk list (utils.py, types.py) and    *)
(* flatten_exec_result.                                                    *)
(***************************************************************************)
RECURSIVE JoinContents(_)
JoinContents(cs) ==
  IF cs = <<>> THEN <<>> ELSE Head(cs).content \o JoinContents(Tail(cs))

IsTxt(c) == c.type = "txt" \/ c.type = "stm"
IsTxtOrErr(c) == c.type = "txt" \/ c.type = "stm" \/ c.type = "err"
IsImg(c) == c.type = "img"
IsErr(c) == c.type = "err"

RECURSIVE ContentsOf(_)
ContentsOf(cs) ==
  IF cs = <<>> THEN <<>> ELSE <<Head(cs).content>> \o ContentsOf(Tail(cs))

\* ExecResult.text: "".join(chunk.content for chunk in self.chunks
\*                          if chunk.type == "txt" or chunk.type == "stm")
TextWithErrors(r) == JoinContents(SelectSeq(r.chunks, IsTxtOrErr))

text(r) == JoinContents(SelectSeq(r.chunks, IsTxt))

\* ExecResult.images: [chunk.content for chunk in self.chunks if type == "img"]
images(r) == ContentsOf(SelectSeq(r.chunks, IsImg))

\* ExecResult.errors: [chunk.content for chunk in self.chunks if type == "err"]
errors(r) == ContentsOf(SelectSeq(r.chunks, IsErr))

\* the contents a stream may carry in this model
ResultContents == { <<>>, <<"a">>, <<"b", "c">> }

ResultChunks == {ExecChunk(t, c) : t \in ChunkTypes, c \in ResultContents}

\* flatten_exec_result: [c for c in result] takes the next chunk of the stream
StreamYield(c) ==
  /\ ~execResult.done
  /\ Len(streamed) < MaxStreamed
  /\ streamed' = Append(streamed, c)
  /\ UNCHANGED <<execResult, exceptResult>>

\* flatten_exec_result: the stream is exhausted, ExecResult(chunks=[...]) returns
FlattenReturn ==
  /\ ~execResult.done
  /\ execResult' = [done |-> TRUE, chunks |-> streamed]
  /\ UNCHANGED <<streamed, exceptResult>>

ResultNext ==
  \/ \E c \in ResultChunks : StreamYield(c)
  \/ FlattenReturn

SpecResult == Init /\ [][ResultNext]_vars

RECURSIVE SumLen(_)
SumLen(ss) == IF ss = <<>> THEN 0 ELSE Len(Head(ss)) + SumLen(Tail(ss))

RECURSIVE SumContentLen(_)
SumContentLen(cs) ==
  IF cs = <<>> THEN 0 ELSE Len(Head(cs).content) + SumContentLen(Tail(cs))

\* the positions of the chunks of type t, and the k-th of them
PositionsOf(cs, t) == {i \in 1..Len(cs) : cs[i].type = t}

KthPosition(cs, t, k) ==
  CHOOSE i \in PositionsOf(cs, t) :
    Cardinality({j \in PositionsOf(cs, t) : j <= i}) = k

\* the text contributed by the chunks before position i
TextBefore(cs, i) == SumContentLen(SelectSeq(SubSeq(cs, 1, i - 1), IsTxt))

Versions == {"v02", "v01"}

Routes == {"direct", "factory"}

Returned(ref) == [state |-> "returned", ref |-> ref]

Raised(error) == [state |-> error, ref |-> None]

\* what __new__ does, as [outcome, instance, objects, created]
\* a __new__ that neither tests nor records cls._instance
NewForgetful(v) ==
  [outcome |-> Returned(objects + 1), instance |-> instance,
   objects |-> objects + 1, ranInit |-> TRUE]

\* local.py LocalBox.__new__: raise RuntimeError when an instance exists,
\* else object.__new__(cls) is recorded and returned.
\* box/local.py LocalBox.__new__: create and record when there is none, else
\* print the notice; return cls._instance either way (__init__ then runs on it).
New(v) ==
  IF v = "v02"
    THEN IF instance # None
           THEN [outcome |-> Raised("RuntimeError"), instance |-> instance,
                 objects |-> objects, ranInit |-> FALSE]
           ELSE [outcome |-> Returned(objects + 1), instance |-> objects + 1,
                 objects |-> objects + 1, ranInit |-> TRUE]
    ELSE IF instance = None
           THEN [outcome |-> Returned(objects + 1), instance |-> objects + 1,
                 objects |-> objects + 1, ranInit |-> TRUE]
           ELSE [outcome |-> Returned(instance), instance |-> instance,
                 objects |-> objects, ranInit |-> TRUE]

\* __init__: box/local.py sets self.kernel = KernelManager(), box/localbox.py
\* sets kernel_id, ws, jupyter and aiohttp_session to None and port to 8888;
\* both set session_id anew.  The handle is named by the __init__ run.
InitAttrs(run) == [kernel |-> run, started |-> FALSE]

\* the process imports codeboxapi
ImportPackage(v) ==
  /\ version = "none"
  /\ version' = v
  /\ UNCHANGED <<instance, objects, inits, held, requests, attrs, exceptSingleton>>

\* caller c evaluates LocalBox() ("direct") or CodeBox(api_key="local")
\* ("factory": CodeBox.__new__ returns LocalBox(...), and since that is a CodeBox
\* Python runs __init__ on it once more; in v01 the factory is a function).
Construct(c, route) ==
  /\ version \in Versions
  /\ requests < MaxRequests
  /\ requests' = requests + 1
  /\ LET n == New(version)
     IN  /\ held' = [held EXCEPT ![c] = n.outcome]
         /\ instance' = n.instance
         /\ objects' = n.objects
         /\ inits' = inits + (IF ~n.ranInit THEN 0
                              ELSE IF route = "factory" /\ version = "v02"
                                     THEN 2 ELSE 1)
         /\ attrs' = IF n.ranInit THEN InitAttrs(inits') ELSE attrs
  /\ UNCHANGED <<version, exceptSingleton>>

\* caller c drops its reference (the class attribute keeps the object alive)
Drop(c) ==
  /\ held[c] # NotRequested
  /\ held' = [held EXCEPT ![c] = NotRequested]
  /\ UNCHANGED <<version, instance, objects, inits, requests, attrs, exceptSingleton>>

\* start() on the singleton: the kernel is started, the websocket, the
\* subprocess handle and the kernel id are set
StartSingleton ==
  /\ instance # None
  /\ ~attrs.started
  /\ attrs' = [attrs EXCEPT !.started = TRUE]
  /\ UNCHANGED <<version, instance, objects, inits, held, requests, exceptSingleton>>

SingletonNext ==
  \/ \E v \in Versions : ImportPackage(v)
  \/ \E c \in Callers, r \in Routes : Construct(c, r)
  \/ \E c \in Callers : Drop(c)
  \/ StartSingleton

SpecSingleton == Init /\ [][SingletonNext]_vars

Holders == {c \in Callers : held[c].state = "returned"}

\* C8: at most one LocalBox object exists in the process, and all references
\* that construction requests returned denote that one object, the one the
\* class records.
C8_SingleInstance ==
  /\ objects <= 1
  /\ \A c \in Holders : held[c].ref = instance
  /\ \A c, d \in Holders : held[c].ref = held[d].ref

\* C8 witness: after several requests two callers hold a reference
C8_Witness ==
  /\ requests >= 3
  /\ Cardinality(Holders) >= 2

\* C9: a construction request for the in-process session never fails: every
\* request returns an instance, also when one exists already.
C9_SecondConstructionSucceeds ==
  \A c \in Callers : held[c] # NotRequested => held[c].state = "returned"

\* C31: a construction request made while the singleton exists leaves the
\* singleton's kernel handle, connection and session attributes as they were.
C31_SecondRequestKeepsState ==
  [][(instance # None /\ requests' = requests + 1) => attrs' = attrs]_vars

(***************************************************************************)
(* Working directory: upload, list_files and download.                     *)
(***************************************************************************)
\* the order of characters under `sort`: a space sorts before the letters
CharRank(ch) == CASE ch = " " -> 0 [] ch = "a" -> 1 [] ch = "b" -> 2

\* s sorts strictly before t (lexicographic, a proper prefix first)
RECURSIVE LexLess(_, _)
LexLess(s, t) ==
  IF t = <<>> THEN FALSE
  ELSE IF s = <<>> THEN TRUE
  ELSE IF Head(s) # Head(t) THEN CharRank(Head(s)) < CharRank(Head(t))
  ELSE LexLess(Tail(s), Tail(t))

\* alist_files: `find . -type f -exec du -h {} + | awk '{print $2, $1}' | sort`
\* prints one line "./<path> <size>" per regular file, sorted; the paths of
\* the lines, "./" removed, in that order.
ExistingFiles == {n \in FileNames : files[n] # Absent}

\* awk '{print $2, $1}' on du's line "<size>\t./<path>": $2 is the second
\* whitespace-separated field, the path up to its first space
RECURSIVE AwkField(_)
AwkField(s) ==
  IF s = <<>> \/ Head(s) = " " THEN <<>> ELSE <<Head(s)>> \o AwkField(Tail(s))

\* the files in the order `sort` gives their lines "./<field> <size>"
RECURSIVE SortedPaths(_)
SortedPaths(S) ==
  IF S = {} THEN <<>>
  ELSE LET first == CHOOSE n \in S :
                      \A m \in S \ {n} :
                        ~LexLess(AwkField(m) \o <<" ">>, AwkField(n) \o <<" ">>)
       IN  <<first>> \o SortedPaths(S \ {first})

\* every line splits on " " into two parts (field and size) and gives one
\* RemoteFile whose path is the field
alist_files ==
  LET sorted == SortedPaths(ExistingFiles)
  IN  [i \in 1..Len(sorted) |-> AwkField(sorted[i])]

\* adownload: [f for f in (await self.alist_files()) if f.path in remote_file_path][0]
PathMatches(name, path) == Contains(name, path)

adownload(name) ==
  LET listed == alist_files
      hits == {i \in 1..Len(listed) : PathMatches(name, listed[i])}
  IN  IF hits = {} THEN [outcome |-> "IndexError", path |-> <<>>]
      ELSE [outcome |-> "returned", path |-> listed[Min(hits)]]

\* LocalBox.upload / aupload: open(os.path.join(cwd, name), "wb") and write
Upload(name, content) ==
  /\ files' = [files EXCEPT ![name] = content]
  /\ UNCHANGED <<lastDownload, exceptFiles>>

\* CodeBox.download(name) and then RemoteFile.get_content(), which reads the
\* file at the returned path with stream_download
Download(name) ==
  /\ LET d == adownload(name)
     IN  lastDownload' =
           [name |-> name, outcome |-> d.outcome, path |-> d.path,
            content |-> IF d.outcome = "returned" THEN files[d.path] ELSE Absent,
            expected |-> files[name]]
  /\ UNCHANGED <<files, exceptFiles>>

FilesNext ==
  \/ \E n \in FileNames, c \in FileContents : Upload(n, c)
  \/ \E n \in FileNames : Download(n)

SpecFiles == Init /\ [][FilesNext]_vars

\* C5: a download of an uploaded file f returns a file whose content is the
\* content of the latest upload to f, whatever other files the working
\* directory holds.
C5_DownloadRoundTrip ==
  (lastDownload.outcome # "none" /\ lastDownload.expected # Absent) =>
    /\ lastDownload.outcome = "returned"
    /\ lastDownload.content = lastDownload.expected

\* C20: a download of a file that does not exist in the working directory
\* fails with a FileNotFound-kind error.
C20_MissingFileNotFound ==
  (lastDownload.outcome # "none" /\ lastDownload.expected = Absent) =>
    lastDownload.outcome = "FileNotFoundError"

\* C21: list_files returns exactly one RemoteFile per regular file of the
\* working directory, each with the file's path relative to cwd, for every
\* file name, names with spaces included.
ListedPaths == {alist_files[i] : i \in 1..Len(alist_files)}

C21_ListFilesComplete ==
  /\ ListedPaths = ExistingFiles
  /\ Len(alist_files) = Cardinality(ExistingFiles)

(***************************************************************************)
(* The gateway's idle timer.  Time is counted in units of 1/UnitsPerSecond *)
(* seconds; CODEBOX_TIMEOUT (minutes in api.py, seconds in container/      *)
(* api.py) is a duration of `units` time units.  The event loop runs a     *)
(* task whose sleep has ended before the clock moves on.                   *)
(***************************************************************************)
SleepSeconds == 1

\* a timer that sleeps two seconds between its checks
SleepUnitsDouble == 2 * SleepSeconds * UnitsPerSecond

\* await asyncio.sleep(1)
SleepUnits == SleepSeconds * UnitsPerSecond

\* str.lower() on the letters the model's texts hold
LowerChar(ch) ==
  CASE ch = "N" -> "n" [] ch = "O" -> "o" [] ch = "E" -> "e" [] OTHER -> ch

Lower(s) == [i \in 1..Len(s) |-> LowerChar(s[i])]

DigitChars == <<"0", "1", "2", "3", "4", "5", "6", "7", "8", "9">>

\* the texts CODEBOX_TIMEOUT may hold: spellings of "none" and numbers, a
\* number being the duration in time units
NoneSpellings ==
  { <<"n", "o", "n", "e">>, <<"N", "o", "n", "e">>, <<"N", "O", "N", "E">> }

EnvTimeouts == NoneSpellings \cup {<<DigitChars[u + 1]>> : u \in 0..MaxTimeout}

\* float(_timeout) of a one-digit text
ParseFloat(s) == (CHOOSE d \in 1..Len(DigitChars) : DigitChars[d] = s[1]) - 1

\* `if (_timeout := getenv("CODEBOX_TIMEOUT", "15")).lower() == "none": return`,
\* else timedelta(minutes=float(_timeout))
ReadTimeout(env) ==
  IF Lower(env) = <<"n", "o", "n", "e">>
    THEN [disabled |-> TRUE, units |-> 0, env |-> env]
    ELSE [disabled |-> FALSE, units |-> ParseFloat(env), env |-> env]

\* CODEBOX_TIMEOUT values: "none" or a number
TimeoutValues == {ReadTimeout(env) : env \in EnvTimeouts}

\* a loop test that lets the timer go one time unit before the deadline
KeepWaitingEarly(cfg) == last_interaction + cfg.units > now + 1

\* while last_interaction + timedelta(minutes=float(_timeout)) > datetime.utcnow()
KeepWaiting(cfg) == last_interaction + cfg.units > now

\* one pass of the timer task from the loop test on: sleep again or exit(0)
TimerStep(cfg) ==
  IF KeepWaiting(cfg)
    THEN /\ timerPc' = "sleeping"
         /\ wake' = now + SleepUnits
         /\ UNCHANGED <<exitTime, exitCode>>
    ELSE /\ timerPc' = "exited"
         /\ exitTime' = now
         /\ exitCode' = 0
         /\ UNCHANGED wake

\* lifespan: asyncio.create_task(timeout()); the task reads CODEBOX_TIMEOUT,
\* returns at once for "none", else enters its loop
LifespanStart(cfg) ==
  /\ timerPc = "unstarted"
  /\ timeoutCfg' = cfg
  /\ IF cfg.disabled
       THEN /\ timerPc' = "returned"
            /\ UNCHANGED <<wake, exitTime, exitCode>>
       ELSE TimerStep(cfg)
  /\ UNCHANGED <<now, last_interaction, lastRequest, exceptIdle>>

\* the timer task wakes from asyncio.sleep(1) and tests the loop condition
TimerWake ==
  /\ timerPc = "sleeping"
  /\ wake = now
  /\ TimerStep(timeoutCfg)
  /\ UNCHANGED <<now, last_interaction, timeoutCfg, lastRequest, exceptIdle>>

\* the endpoints declared with `codebox: LocalBox = Depends(get_codebox)`:
\* POST /exec, GET /files/download/{file_name}, POST /files/upload,
\* POST /code/execute
GuardedEndpoints == {"exec", "download", "upload", "code_execute"}

\* get_codebox: a request to an endpoint that depends on it arrives
Interaction(ep) ==
  /\ timerPc \in {"sleeping", "returned"}
  /\ last_interaction' = now
  /\ lastRequest' = [endpoint |-> ep, at |-> now]
  /\ UNCHANGED <<now, timeoutCfg, timerPc, wake, exitTime, exitCode, exceptIdle>>

\* app.get("/")(lambda: {"status": "ok"}): the route has no dependency;
\* the request is answered and last_interaction is not touched
Healthcheck ==
  /\ timerPc \in {"sleeping", "returned"}
  /\ lastRequest' = [endpoint |-> "root", at |-> now]
  /\ UNCHANGED <<now, last_interaction, timeoutCfg, timerPc, wake, exitTime, exitCode,
                 exceptIdle>>

\* the clock advances by one unit, unless the timer task is due or the
\* process has exited
Tick ==
  /\ timerPc \in {"sleeping", "returned"}
  /\ timerPc = "sleeping" => now < wake
  /\ now < MaxTime
  /\ now' = now + 1
  /\ UNCHANGED <<last_interaction, timeoutCfg, timerPc, wake, exitTime, exitCode,
                 lastRequest, exceptIdle>>

IdleNext ==
  \/ \E cfg \in TimeoutValues : LifespanStart(cfg)
  \/ TimerWake
  \/ \E ep \in GuardedEndpoints : Interaction(ep)
  \/ Healthcheck
  \/ Tick

SpecIdle == Init /\ [][IdleNext]_vars

\* C10: with a numeric CODEBOX_TIMEOUT the gateway is never still running one
\* timer tick (1 s) after last_interaction + CODEBOX_TIMEOUT, and when it has
\* exited it did so with code 0 no later than that moment.
C10_IdleShutdownTimely ==
  (timerPc # "unstarted" /\ ~timeoutCfg.disabled) =>
    /\ timerPc = "sleeping" =>
         now < last_interaction + timeoutCfg.units + SleepSeconds * UnitsPerSecond
    /\ timerPc = "exited" =>
         /\ exitCode = 0
         /\ exitTime <= last_interaction + timeoutCfg.units
                          + SleepSeconds * UnitsPerSecond

\* C10 witness: the process exited after a request had postponed the deadline,
\* later than the timeout alone (the tick granularity shows)
C10_Witness ==
  /\ timerPc = "exited"
  /\ last_interaction > 0
  /\ timeoutCfg.units > 0
  /\ exitTime > last_interaction + timeoutCfg.units

\* C11 (amended): the timer makes the process exit only when
\* now - last_interaction is at least CODEBOX_TIMEOUT, and never when
\* CODEBOX_TIMEOUT is "none" in any letter case.
C11_NeverEarly ==
  /\ timerPc = "exited" =>
       /\ ~timeoutCfg.disabled
       /\ exitTime - last_interaction >= timeoutCfg.units
  /\ timeoutCfg.env \in NoneSpellings => timerPc \in {"unstarted", "returned"}

\* C11 as stated: the process exits only when now - last_interaction EXCEEDS
\* CODEBOX_TIMEOUT, and never when CODEBOX_TIMEOUT is "none".
C11_ExitOnlyWhenExceeded ==
  /\ timerPc = "exited" =>
       /\ ~timeoutCfg.disabled
       /\ exitTime - last_interaction > timeoutCfg.units
  /\ timeoutCfg.env \in NoneSpellings => timerPc \in {"unstarted", "returned"}

\* C11 witness: the process exited exactly CODEBOX_TIMEOUT after a request
C11_Witness ==
  /\ timerPc = "exited"
  /\ last_interaction > 0
  /\ timeoutCfg.units > 0
  /\ exitTime - last_interaction = timeoutCfg.units

\* C12: every endpoint refreshes the idle clock: once the gateway has served
\* a request, last_interaction is the time of the last request served.
C12_EveryEndpointRefreshes ==
  lastRequest # NoRequest => last_interaction = lastRequest.at

(***************************************************************************)
(* The in-process engine: LocalBox.stream_exec ("sync") and astream_exec   *)
(* ("async"), ipython kernel and bash kernel.                              *)
(*                                                                         *)
(* The executed code is a script of emissions: "out" prints a text to      *)
(* stdout, "img" is matplotlib's patched show() printing an <image>        *)
(* sentinel followed by a newline, "err" writes a text to stderr.  The     *)
(* text of emission i is the token i; the newline after the sentinel of    *)
(* image i is the token -i; the token 0 is the cell's result or error, and *)
(* TimeoutMsg the text "Execution timed out".  A chunk's content is a      *)
(* sequence of tokens.  The rewriting of text that starts with "Out[" is   *)
(* not modelled: no text of the model starts with it.                      *)
(***************************************************************************)
EmissionKinds == {"out", "img", "err"}

RECURSIVE SeqsUpTo(_, _)
SeqsUpTo(S, n) ==
  IF n = 0 THEN {<<>>}
  ELSE LET shorter == SeqsUpTo(S, n - 1)
       IN  shorter \cup {Append(q, x) : q \in shorter, x \in S}

Scripts == SeqsUpTo(EmissionKinds, MaxEmit)

Outcomes == {"none", "value", "error"}

\* timeout arguments, in milliseconds; -1 is None
ExecTimeouts == {-1, 500, 1000}

ResultToken == 0

TimeoutMsg == -100

NoneChunk == [type |-> "None", content |-> <<>>]

\* utils.raise_timeout: signal.alarm(int(timeout)) when timeout is not None;
\* alarm(0) arms nothing.  asyncio.timeout(t) arms a deadline for every t.
DeadlineArmed(c) ==
  /\ c.timeout # -1
  /\ c.mode = "sync" => (c.timeout \div 1000) > 0

IsImageToken(tok) == tok > 0 /\ call.script[tok] = "img"

IsTextToken(tok) == ~IsImageToken(tok)

RECURSIVE OneChunkEach(_, _)
OneChunkEach(t, toks) ==
  IF toks = <<>> THEN <<>>
  ELSE <<ExecChunk(t, <<Head(toks)>>)>> \o OneChunkEach(t, Tail(toks))

\* stream_chunks, on a non-empty output: one img chunk per <image> sentinel,
\* then the remaining text, if any, as one txt chunk
ProcessOutput(output) ==
  LET rest == SelectSeq(output, IsTextToken)
  IN  OneChunkEach("img", SelectSeq(output, IsImageToken))
        \o (IF rest = <<>> THEN <<>> ELSE <<ExecChunk("txt", rest)>>)

\* what emission i writes, and where
EmissionTokens(kind, i) == IF kind = "img" THEN <<i, -i>> ELSE <<i>>

\* the chunk for result.error_in_exec / result.result after the loop
ResultChunks_(outcome) ==
  IF outcome = "error" THEN <<ExecChunk("err", <<ResultToken>>)>>
  ELSE IF outcome = "value" THEN <<ExecChunk("txt", <<ResultToken>>)>>
  ELSE <<>>

\* stream_exec / astream_exec is called and runs up to its first wait: the
\* deadline is armed, the buffers are installed and the cell is started
\* (ipython), or the shell process is spawned (bash)
Call(mode, kernel, timeout, script, outcome) ==
  /\ mainPc = "idle"
  /\ kernel = "bash" => (outcome = "none" /\ \A i \in 1..Len(script) : script[i] # "img")
  /\ call' = [mode |-> mode, kernel |-> kernel, timeout |-> timeout,
              script |-> script, outcome |-> outcome]
  /\ cellPc' = "running"
  /\ installed' = [out |-> TRUE, err |-> TRUE]
  /\ pollPc' = IF kernel = "ipython" THEN "check" ELSE "ended"
  /\ mainPc' = IF kernel = "ipython" THEN "consuming" ELSE "read_stdout"
  /\ UNCHANGED <<emitted, stdoutBuf, stderrBuf, snapshot, queue, delivered,
                 deadlinePassed, exceptExec>>

\* the cell (or the shell command) makes its next emission: a write to
\* whatever sys.stdout / sys.stderr is at that moment
CellEmit ==
  /\ cellPc = "running"
  /\ emitted < Len(call.script)
  /\ emitted' = emitted + 1
  /\ LET kind == call.script[emitted + 1]
         toks == EmissionTokens(kind, emitted + 1)
     IN  IF kind = "err"
           THEN /\ stderrBuf' = IF installed.err THEN stderrBuf \o toks ELSE stderrBuf
                /\ UNCHANGED stdoutBuf
           ELSE /\ stdoutBuf' = IF installed.out THEN stdoutBuf \o toks ELSE stdoutBuf
                /\ UNCHANGED stderrBuf
  /\ UNCHANGED <<call, cellPc, installed, pollPc, snapshot, queue, delivered, mainPc,
                 deadlinePassed, exceptExec>>

\* the cell returns (the thread ends), the shell command exits
CellFinish ==
  /\ cellPc = "running"
  /\ emitted = Len(call.script)
  /\ cellPc' = "done"
  /\ UNCHANGED <<call, emitted, stdoutBuf, stderrBuf, installed, pollPc, snapshot,
                 queue, delivered, mainPc, deadlinePassed, exceptExec>>

\* the polling loop runs in its own thread in stream_exec and inside the
\* generator in astream_exec, where it stops with the generator
Polling ==
  /\ call.kernel = "ipython"
  /\ call.mode = "async" => mainPc = "consuming"

\* the chunks go through the queue (sync) or straight to the consumer (async)
Put(chs) ==
  IF call.mode = "sync"
    THEN queue' = queue \o chs /\ UNCHANGED delivered
    ELSE delivered' = delivered \o chs /\ UNCHANGED queue

\* the end of the generator: the result chunk, then the finally block
\* restores sys.stdout and sys.stderr
Finish ==
  /\ delivered' = delivered \o ResultChunks_(call.outcome)
  /\ installed' = [out |-> FALSE, err |-> FALSE]
  /\ mainPc' = "done"

\* `while run_cell.is_alive()` / `while not run_cell.done()`
PollCheck ==
  /\ Polling
  /\ pollPc = "check"
  /\ IF cellPc = "running"
       THEN /\ pollPc' = "read_out"
            /\ UNCHANGED <<queue, delivered, installed, mainPc>>
       ELSE /\ pollPc' = "ended"
            /\ IF call.mode = "sync"
                 THEN /\ queue' = Append(queue, NoneChunk)
                      /\ UNCHANGED <<delivered, installed, mainPc>>
                 ELSE /\ Finish
                      /\ UNCHANGED queue
  /\ UNCHANGED <<call, cellPc, emitted, stdoutBuf, stderrBuf, snapshot, deadlinePassed, exceptExec>>

\* `if output := _out.getvalue()`
PollReadOut ==
  /\ Polling
  /\ pollPc = "read_out"
  /\ snapshot' = stdoutBuf
  /\ pollPc' = IF stdoutBuf # <<>> THEN "swap_out" ELSE "read_err"
  /\ UNCHANGED <<call, cellPc, emitted, stdoutBuf, stderrBuf, installed, queue,
                 delivered, mainPc, deadlinePassed, exceptExec>>

\* `sys.stdout = _out = io.StringIO()` and the chunks of the output read
PollSwapOut ==
  /\ Polling
  /\ pollPc = "swap_out"
  /\ stdoutBuf' = <<>>
  /\ installed' = [installed EXCEPT !.out = TRUE]
  /\ Put(ProcessOutput(snapshot))
  /\ pollPc' = "read_err"
  /\ UNCHANGED <<call, cellPc, emitted, stderrBuf, snapshot, mainPc, deadlinePassed, exceptExec>>

\* `if error := _err.getvalue()`
PollReadErr ==
  /\ Polling
  /\ pollPc = "read_err"
  /\ snapshot' = stderrBuf
  /\ pollPc' = IF stderrBuf # <<>> THEN "swap_err" ELSE "check"
  /\ UNCHANGED <<call, cellPc, emitted, stdoutBuf, stderrBuf, installed, queue,
                 delivered, mainPc, deadlinePassed, exceptExec>>

\* `sys.stderr = _err = io.StringIO()` and the err chunk
PollSwapErr ==
  /\ Polling
  /\ pollPc = "swap_err"
  /\ stderrBuf' = <<>>
  /\ installed' = [installed EXCEPT !.err = TRUE]
  /\ Put(<<ExecChunk("err", snapshot)>>)
  /\ pollPc' = "check"
  /\ UNCHANGED <<call, cellPc, emitted, stdoutBuf, snapshot, mainPc, deadlinePassed, exceptExec>>

\* stream_exec: `if queue.qsize() > 0: if chunk := queue.get(): yield chunk
\* else: break`, the break leading to the result chunk and the finally block
MainGet ==
  /\ call.mode = "sync"
  /\ mainPc = "consuming"
  /\ queue # <<>>
  /\ queue' = Tail(queue)
  /\ IF Head(queue) # NoneChunk
       THEN /\ delivered' = Append(delivered, Head(queue))
            /\ UNCHANGED <<installed, mainPc>>
       ELSE Finish
  /\ UNCHANGED <<call, cellPc, emitted, stdoutBuf, stderrBuf, pollPc, snapshot,
                 deadlinePassed, exceptExec>>

\* bash kernel: `for c in process.stdout: yield ExecChunk(c.decode(), "txt")`,
\* one line per chunk, until the command closes its stdout
BashReadStdout ==
  /\ mainPc = "read_stdout"
  /\ IF stdoutBuf # <<>>
       THEN /\ delivered' = Append(delivered, ExecChunk("txt", <<Head(stdoutBuf)>>))
            /\ stdoutBuf' = Tail(stdoutBuf)
            /\ UNCHANGED mainPc
       ELSE /\ cellPc = "done"
            /\ mainPc' = "read_stderr"
            /\ UNCHANGED <<delivered, stdoutBuf>>
  /\ UNCHANGED <<call, cellPc, emitted, stderrBuf, installed, pollPc, snapshot, queue,
                 deadlinePassed, exceptExec>>

\* bash kernel: `for c in process.stderr: yield ExecChunk(c.decode(), "err")`
BashReadStderr ==
  /\ mainPc = "read_stderr"
  /\ IF stderrBuf # <<>>
       THEN /\ delivered' = Append(delivered, ExecChunk("err", <<Head(stderrBuf)>>))
            /\ stderrBuf' = Tail(stderrBuf)
            /\ UNCHANGED <<mainPc, installed>>
       ELSE /\ cellPc = "done"
            /\ mainPc' = "done"
            /\ installed' = [out |-> FALSE, err |-> FALSE]
            /\ UNCHANGED <<delivered, stderrBuf>>
  /\ UNCHANGED <<call, cellPc, emitted, stdoutBuf, pollPc, snapshot, queue, deadlinePassed, exceptExec>>

\* the deadline passes while the exec is running: SIGALRM's handler raises
\* TimeoutError("Execution timed out") in the main thread (sync), asyncio.timeout
\* cancels the generator and raises TimeoutError (async).  Nothing catches it:
\* the finally block restores sys.stdout / sys.stderr and the exception reaches
\* the consumer.  The cell's thread is not stopped.
DeadlinePasses ==
  /\ mainPc \in {"consuming", "read_stdout", "read_stderr"}
  /\ DeadlineArmed(call)
  /\ mainPc' = "raised"
  /\ deadlinePassed' = TRUE
  /\ installed' = IF call.kernel = "ipython"
                    THEN [out |-> FALSE, err |-> FALSE] ELSE installed
  /\ UNCHANGED <<call, cellPc, emitted, stdoutBuf, stderrBuf, pollPc, snapshot, queue,
                 delivered, exceptExec>>

ExecNext ==
  \/ \E m \in {"sync", "async"}, k \in {"ipython", "bash"}, t \in ExecTimeouts,
        sc \in Scripts, o \in Outcomes : Call(m, k, t, sc, o)
  \/ CellEmit
  \/ CellFinish
  \/ PollCheck
  \/ PollReadOut
  \/ PollSwapOut
  \/ PollReadErr
  \/ PollSwapErr
  \/ MainGet
  \/ BashReadStdout
  \/ BashReadStderr
  \/ DeadlinePasses

SpecExec == Init /\ [][ExecNext]_vars

RECURSIVE FlattenTokens(_)
FlattenTokens(cs) ==
  IF cs = <<>> THEN <<>> ELSE Head(cs).content \o FlattenTokens(Tail(cs))

\* the emission a token belongs to
EmissionOf(tok) == IF tok < 0 THEN -tok ELSE tok

IsEmissionChunk(c) == c.content # <<ResultToken>> /\ c.content # <<TimeoutMsg>>

\* C2: within one exec the chunks are delivered in emission order: going
\* through the delivered chunks in order of delivery, the emissions they carry
\* never go back (ipython kernel and bash kernel).
C2_EmissionOrder ==
  LET toks == FlattenTokens(SelectSeq(delivered, IsEmissionChunk))
  IN  \A i, j \in 1..Len(toks) :
        i < j => EmissionOf(toks[i]) <= EmissionOf(toks[j])

IsTxtChunk(c) == c.type = "txt"

Occurrences(toks, tok) == Cardinality({i \in 1..Len(toks) : toks[i] = tok})

\* C4: when an exec on the ipython kernel has ended, every text the cell
\* printed to stdout has been delivered in exactly one txt chunk.
C4_NoOutputLost ==
  (mainPc = "done" /\ call.kernel = "ipython") =>
    \A i \in 1..Len(call.script) :
      call.script[i] = "out" =>
        Occurrences(FlattenTokens(SelectSeq(delivered, IsTxtChunk)), i) = 1

\* C7: when an exec ran longer than its timeout, the cell has been cancelled
\* and the consumer sees the end of the stream (no exception), the last chunk
\* being an err chunk with the content "Execution timed out".
C7_TimeoutSurfaced ==
  deadlinePassed =>
    /\ mainPc = "done"
    /\ cellPc # "running"
    /\ delivered # <<>>
    /\ delivered[Len(delivered)] = ExecChunk("err", <<TimeoutMsg>>)

(***************************************************************************)
(* The gateway: POST /exec requests on the module's one LocalBox.  Every   *)
(* request gets its own event_stream over codebox.astream_exec (ipython    *)
(* kernel); all of them run as tasks of one event loop and share           *)
(* sys.stdout.  The text a cell prints is the pair <<request, number>>.    *)
(* sys.stderr is redirected and polled exactly as sys.stdout and is left   *)
(* out; a poll is one step here, its read and swap are steps of their own  *)
(* in the in-process engine above.                                         *)
(***************************************************************************)
ExecRequests == 1..MaxExecRequests

InFlight == {r \in ExecRequests : streams[r].pc = "streaming"}

\* the request arrives (get_codebox refreshes last_interaction), the handler
\* returns its StreamingResponse and the stream runs astream_exec up to its
\* first await: sys.stdout is saved and replaced, the cell is started.
\* Nothing in the handler or in astream_exec waits for an exec in flight.
ExecRequest(r, n) ==
  /\ streams[r].pc = "none"
  /\ \A q \in 1..(r - 1) : streams[q].pc # "none"
  /\ timerPc # "exited"
  /\ last_interaction' = now
  /\ lastRequest' = [endpoint |-> "exec", at |-> now]
  /\ streams' = [streams EXCEPT ![r] =
                   [pc |-> "streaming", len |-> n, written |-> 0,
                    cellDone |-> FALSE, temp_output |-> <<>>,
                    old_stdout |-> sys_stdout, sent |-> <<>>]]
  /\ sys_stdout' = r
  /\ UNCHANGED <<now, timeoutCfg, timerPc, wake, exitTime, exitCode, exceptGateway>>

\* the cell of request r prints: the text goes to whatever sys.stdout is now
CellPrint(r) ==
  /\ streams[r].pc = "streaming"
  /\ streams[r].written < streams[r].len
  /\ LET printed == <<r, streams[r].written + 1>>
         counted == [streams EXCEPT ![r].written = @ + 1]
     IN  streams' =
           IF sys_stdout \in ExecRequests /\ streams[sys_stdout].pc = "streaming"
             THEN [counted EXCEPT ![sys_stdout].temp_output = Append(@, printed)]
             ELSE counted
  /\ UNCHANGED <<sys_stdout, idleVars, exceptGateway>>

\* shell.run_cell returns in its thread
CellReturn(r) ==
  /\ streams[r].pc = "streaming"
  /\ ~streams[r].cellDone
  /\ streams[r].written = streams[r].len
  /\ streams' = [streams EXCEPT ![r].cellDone = TRUE]
  /\ UNCHANGED <<sys_stdout, idleVars, exceptGateway>>

\* a StringIO that was saved as some request's old_stdout and has been replaced
Forget(ss, r) ==
  [q \in ExecRequests |->
     IF ss[q].old_stdout = r THEN [ss[q] EXCEPT !.old_stdout = Replaced] ELSE ss[q]]

\* request r's stream wakes from `await asyncio.sleep(0.001)`: it reads its
\* temp_output, replaces sys.stdout by a new StringIO when there was output
\* and yields the txt chunk, then tests `while not run_cell.done()`: it sleeps
\* again, or leaves the loop, restores sys.stdout to what it saved and ends.
Poll(r) ==
  /\ streams[r].pc = "streaming"
  /\ LET output == streams[r].temp_output
         polled == IF output = <<>> THEN streams
                   ELSE Forget([streams EXCEPT ![r].temp_output = <<>>,
                                               ![r].sent = Append(@, ExecChunk("txt", output))],
                               r)
         swapped == IF output = <<>> THEN sys_stdout ELSE r
     IN  IF streams[r].cellDone
           THEN /\ streams' = [polled EXCEPT ![r].pc = "ended"]
                /\ sys_stdout' = polled[r].old_stdout
           ELSE /\ streams' = polled
                /\ sys_stdout' = swapped
  /\ UNCHANGED <<idleVars, exceptGateway>>

GatewayNext ==
  \/ \E r \in ExecRequests, n \in 0..MaxWrites : ExecRequest(r, n)
  \/ \E r \in ExecRequests : CellPrint(r)
  \/ \E r \in ExecRequests : CellReturn(r)
  \/ \E r \in ExecRequests : Poll(r)

SpecGateway == Init /\ [][GatewayNext]_vars

\* C3: at most one exec is in flight at any time: a request's exec does not
\* start while the stream of an earlier request has not ended.
C3_OneExecInFlight == Cardinality(InFlight) <= 1

\* C30: once every exec that was started has ended, sys.stdout is again the
\* object it was before the first exec, also when the execs overlapped.
C30_StdoutRestored ==
  (/\ \E r \in ExecRequests : streams[r].pc = "ended"
   /\ InFlight = {}) => sys_stdout = RealStdout

(***************************************************************************)
(* RemoteBox: one call and its HTTP attempts.  upload and aupload are      *)
(* plain (coroutine) functions: the @retry wrapper runs their body and     *)
(* sees its exception.  stream_exec, astream_exec and stream_download are  *)
(* generator functions: the wrapper's call returns the generator object    *)
(* without running the body, and the request is made when the consumer     *)
(* asks for the first item, outside the wrapper.                           *)
(***************************************************************************)
FunctionOps == {"upload", "aupload"}

GeneratorOps == {"stream_exec", "astream_exec", "stream_download"}

\* the gateway's answer to one request: 2xx, 502, another error status, or
\* no answer at all (httpx.ConnectError)
Answers == {"200", "502", "500", "ConnectError"}

RECURSIVE SeqsOfLen(_, _)
SeqsOfLen(S, n) ==
  IF n = 0 THEN {<<>>}
  ELSE {Append(q, x) : q \in SeqsOfLen(S, n - 1), x \in S}

AnswerScripts == SeqsOfLen(Answers, MaxAnswers)

\* stop=stop_after_attempt(3)
StopAfterAttempt == 3

WaitMin == 5

WaitMax == 150

RECURSIVE Pow2(_)
Pow2(n) == IF n = 0 THEN 1 ELSE 2 * Pow2(n - 1)

\* wait=wait_exponential(multiplier=1, min=5, max=150), after attempt n
WaitExponential(n) ==
  LET exp == Pow2(n - 1)
      capped == IF exp < WaitMax THEN exp ELSE WaitMax
  IN  IF capped > WaitMin THEN capped ELSE WaitMin

\* response.raise_for_status() / the transport: the exception of an answer
ExceptionOf(answer) ==
  CASE answer = "502" -> "HTTPStatusError502"
    [] answer = "500" -> "HTTPStatusError500"
    [] answer = "ConnectError" -> "ConnectError"

\* a predicate that retries on every HTTPStatusError
RetryIfAnyStatusError(exc) == exc \in {"HTTPStatusError502", "HTTPStatusError500"}

\* retry_if_exception(lambda e: isinstance(e, httpx.HTTPStatusError)
\*                              and e.response.status_code == 502)
RetryIf(exc) == exc = "HTTPStatusError502"

\* the call: the wrapper starts its first attempt (functions), or calls the
\* generator function, gets the generator object and returns it (generators)
RemoteCall(op, answers) ==
  /\ remotePc = "idle"
  /\ remoteCall' = [op |-> op, answers |-> answers]
  /\ remotePc' = IF op \in FunctionOps THEN "attempting" ELSE "generator"
  /\ UNCHANGED <<attempts, waits, remoteOutcome, exceptRemote>>

\* one attempt of upload / aupload inside the wrapper: the POST, then
\* raise_for_status; on an exception the wrapper consults retry and stop
Attempt ==
  /\ remotePc = "attempting"
  /\ attempts < MaxAnswers
  /\ attempts' = attempts + 1
  /\ LET answer == remoteCall.answers[attempts + 1]
     IN  IF answer = "200"
           THEN /\ remotePc' = "returned"
                /\ remoteOutcome' = "ok"
                /\ UNCHANGED waits
           ELSE IF ~RetryIf(ExceptionOf(answer))
             THEN /\ remotePc' = "raised"
                  /\ remoteOutcome' = ExceptionOf(answer)
                  /\ UNCHANGED waits
           ELSE IF attempts + 1 >= StopAfterAttempt
             THEN /\ remotePc' = "raised"
                  /\ remoteOutcome' = "RetryError"
                  /\ UNCHANGED waits
           ELSE /\ remotePc' = "waiting"
                /\ waits' = Append(waits, WaitExponential(attempts + 1))
                /\ UNCHANGED remoteOutcome
  /\ UNCHANGED <<remoteCall, exceptRemote>>

\* the wrapper's sleep between two attempts ends
WaitOver ==
  /\ remotePc = "waiting"
  /\ remotePc' = "attempting"
  /\ UNCHANGED <<remoteCall, attempts, waits, remoteOutcome, exceptRemote>>

\* the consumer asks the generator for its first item: the body runs, makes
\* the request and raise_for_status either raises to the consumer or the
\* response is streamed to it
FirstNext ==
  /\ remotePc = "generator"
  /\ attempts' = attempts + 1
  /\ LET answer == remoteCall.answers[attempts + 1]
     IN  IF answer = "200"
           THEN /\ remotePc' = "returned"
                /\ remoteOutcome' = "ok"
           ELSE /\ remotePc' = "raised"
                /\ remoteOutcome' = ExceptionOf(answer)
  /\ UNCHANGED <<remoteCall, waits, exceptRemote>>

RemoteNext ==
  \/ \E op \in FunctionOps \cup GeneratorOps, answers \in AnswerScripts :
        RemoteCall(op, answers)
  \/ Attempt
  \/ WaitOver
  \/ FirstNext

SpecRemote == Init /\ [][RemoteNext]_vars

RemoteEnded == remotePc \in {"returned", "raised"}

\* a further attempt within the budget would get a 2xx answer
LaterAttemptSucceeds ==
  \E i \in 2..StopAfterAttempt :
    /\ remoteCall.answers[i] = "200"
    /\ \A j \in 1..(i - 1) : remoteCall.answers[j] = "502"

\* C13: a streaming call whose first request is answered with 502 and whose
\* later attempt would succeed ends with the consumer receiving the chunks,
\* not an HTTPStatusError.
C13_StreamingRetried ==
  (remoteCall.op \in GeneratorOps /\ RemoteEnded /\ LaterAttemptSucceeds) =>
    remoteOutcome = "ok"

\* C14: one call of upload / aupload makes at most 3 attempts, makes a further
\* attempt only after a 502, and lets every other failure reach the caller
\* after the first attempt.
C14_RetryBoundedAndSelective ==
  remoteCall.op \in FunctionOps =>
    /\ attempts <= 3
    /\ \A i \in 1..(attempts - 1) : remoteCall.answers[i] = "502"
    /\ (RemoteEnded /\ remoteCall.answers[1] \in {"500", "ConnectError"}) =>
         /\ attempts = 1
         /\ remotePc = "raised"
         /\ remoteOutcome = ExceptionOf(remoteCall.answers[1])

\* C14 witness: an upload that used its whole budget on 502 answers
C14_Witness ==
  /\ remoteCall.op \in FunctionOps
  /\ RemoteEnded
  /\ attempts = 3
  /\ Len(waits) = 2

(***************************************************************************)
(* LocalBox file operations and the paths they open.  A path is a sequence *)
(* of components; "/" as first component makes it absolute.  The working   *)
(* directory is /w.                                                        *)
(***************************************************************************)
Cwd == <<"/", "w">>

\* the names given to upload / download: a plain name, a name with "..", an
\* absolute path, a name through the symlink
PathNames == { <<"a">>, <<"..", "x">>, <<"/", "out", "x">>, <<"link", "x">> }

\* os.path.join(self.cwd, name): an absolute name discards cwd
PathJoin(base, name) == IF name[1] = "/" THEN name ELSE base \o name

\* open() resolving a path: "/" starts at the root, ".." goes to the parent,
\* a symlink is followed
RECURSIVE Walk(_, _)
Walk(at, rest) ==
  IF rest = <<>> THEN at
  ELSE LET c == Head(rest)
       IN  IF c = "/" THEN Walk(<<>>, Tail(rest))
           ELSE IF c = ".."
             THEN Walk(IF at = <<>> THEN at ELSE SubSeq(at, 1, Len(at) - 1), Tail(rest))
           ELSE IF at = <<"w">> /\ c = "link" /\ symlink
             THEN Walk(<<"out">>, Tail(rest))
           ELSE Walk(Append(at, c), Tail(rest))

Resolve(path) == Walk(<<>>, path)

\* code run in the session creates a symlink: os.symlink("/out", "link")
MakeSymlink ==
  /\ ~symlink
  /\ symlink' = TRUE
  /\ UNCHANGED <<disk, lastFileOp, exceptPath>>

\* LocalBox.upload / aupload (the gateway's upload passes file.filename on):
\* open(os.path.join(self.cwd, name), "wb") and write the content
LocalUpload(name, content) ==
  /\ LET p == Resolve(PathJoin(Cwd, name))
     IN  IF p \in DiskPaths
           THEN /\ disk' = [disk EXCEPT ![p] = content]
                /\ lastFileOp' = [op |-> "upload", name |-> name, outcome |-> "returned",
                                  path |-> p, content |-> content]
           ELSE /\ lastFileOp' = [op |-> "upload", name |-> name,
                                  outcome |-> "FileNotFoundError", path |-> p,
                                  content |-> Absent]
                /\ UNCHANGED disk
  /\ UNCHANGED <<symlink, exceptPath>>

\* LocalBox.stream_download / astream_download, consumed:
\* open(os.path.join(self.cwd, name), "rb") and read
LocalDownload(name) ==
  /\ LET p == Resolve(PathJoin(Cwd, name))
     IN  IF p \in DiskPaths /\ disk[p] # Absent
           THEN lastFileOp' = [op |-> "download", name |-> name, outcome |-> "returned",
                               path |-> p, content |-> disk[p]]
           ELSE lastFileOp' = [op |-> "download", name |-> name,
                               outcome |-> "FileNotFoundError", path |-> p,
                               content |-> Absent]
  /\ UNCHANGED <<disk, symlink, exceptPath>>

PathNext ==
  \/ MakeSymlink
  \/ \E n \in PathNames, c \in FileContents : LocalUpload(n, c)
  \/ \E n \in PathNames : LocalDownload(n)

SpecPath == Init /\ [][PathNext]_vars

InsideCwd(p) == Len(p) > 1 /\ p[1] = "w"

\* C15: no file outside the working directory is written or read: the files
\* outside it are what they were, and every upload or download that succeeded
\* opened a file inside the working directory.
C15_ConfinedToCwd ==
  /\ \A p \in DiskPaths :
       ~InsideCwd(p) => disk[p] = (IF p = <<"out", "x">> THEN HostContent ELSE Absent)
  /\ lastFileOp.outcome = "returned" => InsideCwd(lastFileOp.path)

(***************************************************************************)
(* CodeBox(...) as a factory.  An api_key is "unset" (None, not given),    *)
(* the empty string, "local", "docker" or another key ("sk").              *)
(***************************************************************************)
KeyValues == {"local", "docker", "sk"}

ArgKeys == {"unset", ""} \cup KeyValues

EnvKeys == {"unset", ""} \cup KeyValues

\* Python's `a or b` on optional strings: None and "" are false
Falsy(k) == k \in {"unset", ""}

OrElse(a, b) == IF Falsy(a) THEN b ELSE a

\* CodeBox.__new__: api_key = kwargs.get("api_key") or os.getenv("CODEBOX_API_KEY")
\* and the class chosen for it
ClassFor(api_key) ==
  IF api_key = "local" THEN "LocalBox"
  ELSE IF api_key = "docker" THEN "DockerBox"
  ELSE "RemoteBox"

\* what evaluating CodeBox(api_key=arg) gives: the class of the object, or the
\* exception.  LocalBox.__new__ raises when an instance exists; RemoteBox.__init__
\* has `api_key or getenv("CODEBOX_API_KEY") or raise_error(...)`; DockerBox
\* has its own __init__ and needs no key.
NewCodeBox(arg, env, existing) ==
  LET cls == ClassFor(OrElse(arg, env))
  IN  IF cls = "LocalBox" THEN (IF existing THEN "RuntimeError" ELSE "LocalBox")
      ELSE IF cls = "DockerBox" THEN "DockerBox"
      ELSE IF Falsy(OrElse(arg, env)) THEN "Exception"
      ELSE "RemoteBox"

\* the host program sets or clears CODEBOX_API_KEY
SetEnv(v) ==
  /\ environ # v
  /\ environ' = v
  /\ UNCHANGED <<localExists, built, exceptFactory>>

\* the host program evaluates CodeBox(api_key=arg), or CodeBox() for "unset"
Create(arg) ==
  /\ LET outcome == NewCodeBox(arg, environ, localExists)
     IN  /\ built' = [api_key |-> arg, env |-> environ, existing |-> localExists,
                      outcome |-> outcome]
         /\ localExists' = (localExists \/ outcome = "LocalBox")
  /\ UNCHANGED <<environ, exceptFactory>>

FactoryNext ==
  \/ \E v \in EnvKeys : SetEnv(v)
  \/ \E arg \in ArgKeys : Create(arg)

SpecFactory == Init /\ [][FactoryNext]_vars

\* the key the factory rule speaks of: the argument, or else the environment
\* variable, or else nothing
EffectiveKey(b) ==
  IF b.api_key # "unset" THEN b.api_key ELSE b.env

\* C16: CodeBox(...) yields the LocalBox for the effective key "local" and
\* when no key is given at all, a DockerBox for "docker", a RemoteBox for any
\* other key (a first construction of the in-process session is meant).
C16_FactoryRule ==
  (built.outcome # "none" /\ ~built.existing /\ EffectiveKey(built) # "") =>
    built.outcome =
      (IF EffectiveKey(built) \in {"local", "unset"} THEN "LocalBox"
       ELSE IF EffectiveKey(built) = "docker" THEN "DockerBox"
       ELSE "RemoteBox")

(***************************************************************************)
(* The lifecycle API on the in-process session: start, status and stop.   *)
(* codeboxapi/codebox.py ("v02") answers from healthcheck, which runs      *)
(* `echo ok` on the bash kernel and is healthy for the in-process session; *)
(* codeboxapi/box/local.py ("v01") owns a jupyter KernelManager.           *)
(***************************************************************************)
\* CodeBox.ahealthcheck on the in-process session
ahealthcheck == "healthy"

Report(op, reported) == [op |-> op, reported |-> reported]

\* v02 astart: "started" if healthcheck is healthy else "error";
\* v01 start: a kernel is started if none is alive, "started"
start ==
  /\ version \in Versions
  /\ Len(calls) < MaxCalls
  /\ IF version = "v02"
       THEN /\ calls' = Append(calls, Report("start",
                          IF ahealthcheck = "healthy" THEN "started" ELSE "error"))
            /\ UNCHANGED kernelAlive
       ELSE /\ calls' = Append(calls, Report("start", "started"))
            /\ kernelAlive' = TRUE
  /\ UNCHANGED exceptLifecycle

\* v02 astatus: "running" if healthcheck is healthy else "stopped";
\* v01 status: "running" if self.kernel.is_alive() else "stopped"
status ==
  /\ version \in Versions
  /\ Len(calls) < MaxCalls
  /\ calls' = Append(calls, Report("status",
                IF version = "v02"
                  THEN (IF ahealthcheck = "healthy" THEN "running" ELSE "stopped")
                  ELSE (IF kernelAlive THEN "running" ELSE "stopped")))
  /\ UNCHANGED <<kernelAlive, exceptLifecycle>>

\* v02 astop: return "stopped", nothing else;
\* v01 stop: self.kernel.shutdown_kernel(), "stopped"
stop ==
  /\ version \in Versions
  /\ Len(calls) < MaxCalls
  /\ calls' = Append(calls, Report("stop", "stopped"))
  /\ kernelAlive' = (IF version = "v02" THEN kernelAlive ELSE FALSE)
  /\ UNCHANGED exceptLifecycle

LifecycleNext ==
  \/ \E v \in Versions : ImportPackage(v)
  \/ start
  \/ status
  \/ stop

SpecLifecycle == Init /\ [][LifecycleNext]_vars

\* the last start or stop before call j, 0 when there is none
LastSwitch(j) ==
  LET S == {i \in 1..(j - 1) : calls[i].op \in {"start", "stop"}}
  IN  IF S = {} THEN 0 ELSE CHOOSE i \in S : \A k \in S : k <= i

\* C17: a status call reports "running" when the last start or stop before it
\* was a start, and "stopped" when it was a stop.
C17_StatusFollowsLifecycle ==
  \A j \in 1..Len(calls) :
    (calls[j].op = "status" /\ LastSwitch(j) # 0) =>
      calls[j].reported =
        (IF calls[LastSwitch(j)].op = "start" THEN "running" ELSE "stopped")

(***************************************************************************)
(* keep_alive(minutes): akeep_alive opens an anyio task group, starts the  *)
(* ping task in it and leaves the `async with` block, which waits for the  *)
(* tasks of the group; keep_alive runs akeep_alive to its end (syncify).   *)
(***************************************************************************)
PingSleep == 60

\* akeep_alive is called: tg.start_soon(ping, self, minutes), then the exit
\* of the task group begins to wait for the task
keep_alive(m) ==
  /\ minutes = -1
  /\ minutes' = m
  /\ pingPc' = "ready"
  /\ UNCHANGED <<pingLog, seconds, returned, exceptKeepAlive>>

\* ping: the next turn of `for _ in range(d)`: await cb.ahealthcheck(), which
\* takes some time, then await anyio.sleep(60) begins; after the last turn
\* the task ends
Ping(took) ==
  /\ pingPc = "ready"
  /\ IF Len(pingLog) < minutes
       THEN /\ pingLog' = Append(pingLog, seconds)
            /\ seconds' = seconds + took
            /\ pingPc' = "sleeping"
       ELSE /\ took = 0
            /\ pingPc' = "finished"
            /\ UNCHANGED <<pingLog, seconds>>
  /\ UNCHANGED <<minutes, returned, exceptKeepAlive>>

\* anyio.sleep(60) ends
PingSleepOver ==
  /\ pingPc = "sleeping"
  /\ seconds' = seconds + PingSleep
  /\ pingPc' = "ready"
  /\ UNCHANGED <<minutes, pingLog, returned, exceptKeepAlive>>

\* the task group's exit: every task of the group has ended, akeep_alive
\* returns
TaskGroupExit ==
  /\ pingPc = "finished"
  /\ ~returned
  /\ returned' = TRUE
  /\ UNCHANGED <<minutes, pingPc, pingLog, seconds, exceptKeepAlive>>

KeepAliveNext ==
  \/ \E m \in 0..MaxMinutes : keep_alive(m)
  \/ \E took \in 0..MaxPingSeconds : Ping(took)
  \/ PingSleepOver
  \/ TaskGroupExit

SpecKeepAlive == Init /\ [][KeepAliveNext]_vars

\* C18: keep_alive pings in the background: it makes at most `minutes`
\* healthcheck calls, exactly `minutes` when the task has ended, two calls
\* being at least 60 s apart, and while the task sleeps between two pings the
\* call has already returned to its caller.
C18_PingsInBackground ==
  minutes # -1 =>
    /\ Len(pingLog) <= minutes
    /\ pingPc = "finished" => Len(pingLog) = minutes
    /\ \A i \in 1..(Len(pingLog) - 1) : pingLog[i + 1] - pingLog[i] >= 60
    /\ pingPc = "sleeping" => returned

(***************************************************************************)
(* run / arun of box/localbox.py: the code is sent to the kernel over a    *)
(* websocket and the replies are read; when the connection is lost the     *)
(* gateway is started again and run calls itself with retry - 1.           *)
(***************************************************************************)
\* what the kernel does with one submission: it answers (status idle after
\* output), it answers with an error message, or the connection is lost
Fates == {"reply", "error", "closed"}

KernelScripts == SeqsOfLen(Fates, MaxSubmissions)

\* def run(self, code=None, file_path=None, retry=3)
DefaultRetry == 3

\* the arguments: code is "" (falsy, as None is) or a text; file_path is
\* "none" or names a file, which is empty or holds a text
RunCodes == {"", "c"}
RunFiles == {"none", "empty", "full"}

\* f.read()
FileText(f) == IF f = "full" THEN "f" ELSE ""

\* run / arun is called with its default retry
run(script, c, f) ==
  /\ runPc = "idle"
  /\ kernelScript' = script
  /\ runCode' = c
  /\ runFile' = f
  /\ runCall' = [code |-> c, file_path |-> f]
  /\ retry' = DefaultRetry
  /\ runPc' = "entered"
  /\ UNCHANGED <<submissions, jupyterStarts, runResult, exceptKernel>>

\* the body up to the receive loop: the two tests of the arguments, the read
\* of the file into `code`, `if retry <= 0: raise RuntimeError(...)`, else
\* the execute_request is sent
Submit ==
  /\ runPc = "entered"
  /\ IF (runCode = "" /\ runFile = "none") \/ (runCode # "" /\ runFile # "none")
       THEN /\ runPc' = "raised"
            /\ runResult' = "ValueError"
            /\ UNCHANGED <<submissions, runCode>>
       ELSE /\ runCode' = (IF runFile # "none" THEN FileText(runFile) ELSE runCode)
            /\ IF retry <= 0
                 THEN /\ runPc' = "raised"
                      /\ runResult' = "RuntimeError"
                      /\ UNCHANGED submissions
                 ELSE /\ submissions < MaxSubmissions
                      /\ submissions' = submissions + 1
                      /\ runPc' = "receiving"
                      /\ UNCHANGED runResult
  /\ UNCHANGED <<kernelScript, retry, jupyterStarts, runFile, runCall,
                 exceptKernel>>

\* the receive loop: the reply ends the call with an output; on
\* ConnectionClosedError: self.start(); return self.run(code, file_path, retry - 1)
Receive ==
  /\ runPc = "receiving"
  /\ LET fate == kernelScript[submissions]
     IN  IF fate = "closed"
           THEN /\ jupyterStarts' = jupyterStarts + 1
                /\ retry' = retry - 1
                /\ runPc' = "entered"
                /\ UNCHANGED runResult
           ELSE /\ runPc' = "returned"
                /\ runResult' = (IF fate = "error" THEN "error" ELSE "text")
                /\ UNCHANGED <<jupyterStarts, retry>>
  /\ UNCHANGED <<kernelScript, submissions, runCode, runFile, runCall,
                 exceptKernel>>

KernelNext ==
  \/ \E script \in KernelScripts, c \in RunCodes, f \in RunFiles :
       run(script, c, f)
  \/ Submit
  \/ Receive

SpecKernel == Init /\ [][KernelNext]_vars

EveryAttemptLost ==
  /\ submissions > 0
  /\ \A i \in 1..submissions : kernelScript[i] = "closed"

\* C19: one call submits the code at most 3 times, and when every attempt
\* of a call with code lost the connection the call has returned one error
\* output, not raised.
C19_CrashRecoveryReturnsError ==
  /\ submissions <= 3
  /\ (/\ runPc \in {"returned", "raised"}
      /\ runCall.file_path = "none"
      /\ EveryAttemptLost) =>
       /\ runPc = "returned"
       /\ runResult = "error"

\* what run(code=...) ends with when the kernel treats the submissions as the
\* script says: the first answer within the retries, else RuntimeError
RECURSIVE RunOutcome(_, _, _)
RunOutcome(script, i, left) ==
  IF left <= 0 THEN "RuntimeError"
  ELSE IF script[i] = "closed" THEN RunOutcome(script, i + 1, left - 1)
  ELSE IF script[i] = "error" THEN "error" ELSE "text"

\* C36: run(file_path=p) recovers from a lost connection exactly like
\* run(code=contents of p): the retry submits the file's code again and the
\* call ends as the call with the code does, not with the ValueError of the
\* argument tests.
C36_FileRunRecoversLikeCode ==
  (/\ runPc \in {"returned", "raised"}
   /\ runCall.code = ""
   /\ runCall.file_path = "full") =>
     runResult = RunOutcome(kernelScript, 1, DefaultRetry)

(***************************************************************************)
(* DockerBox construction.  A container started with `-p <port>:8069`      *)
(* keeps the host port (docker's proxy listens on it) for as long as the   *)
(* model runs; `docker run -d` returns once the port is published and the  *)
(* container's gateway answers GET /.                                      *)
(***************************************************************************)
DefaultPort == 8069

NoPort == -1

Ports == DefaultPort..(DefaultPort + MaxPortOffset)

\* port_or_range: the default 8069, or a tuple (start, end)
PortArgs ==
  { [isRange |-> FALSE, start |-> DefaultPort, end |-> DefaultPort],
    [isRange |-> TRUE, start |-> DefaultPort, end |-> DefaultPort + 1] }

Published ==
  {boxes[i].port : i \in {j \in 1..Len(boxes) : boxes[j].outcome = "returned"}}

InUse == busy \cup Published

\* a probe that takes every port for free
BindAlways(port) == TRUE

\* s.bind(("localhost", port)) does not raise OSError
BindSucceeds(port) == port \notin InUse

\* get_free_port: the loop bound of an int argument is `port` itself, read
\* again on every pass, so the search goes upwards until a bind succeeds;
\* a tuple ends the search at `end` with OSError
RECURSIVE get_free_port(_, _)
get_free_port(arg, port) ==
  IF ~(port <= (IF arg.isRange THEN arg.end ELSE port)) THEN NoPort
  ELSE IF BindSucceeds(port) THEN port
  ELSE get_free_port(arg, port + 1)

\* DockerBox.__init__ with start_container=True: get_free_port, docker run
\* (check=True), _wait_for_startup
DockerBox(arg) ==
  /\ Len(boxes) < MaxBoxes
  /\ LET port == get_free_port(arg, arg.start)
         outcome == IF port = NoPort THEN "OSError"
                    ELSE IF port \in InUse THEN "CalledProcessError"
                    ELSE "returned"
     IN  boxes' = Append(boxes, [arg |-> arg, outcome |-> outcome, port |-> port])
  /\ UNCHANGED <<busy, exceptDocker>>

\* another process of the host starts or stops listening on a port
ForeignBind(p) ==
  /\ p \notin InUse
  /\ busy' = busy \cup {p}
  /\ UNCHANGED <<boxes, exceptDocker>>

ForeignClose(p) ==
  /\ p \in busy
  /\ busy' = busy \ {p}
  /\ UNCHANGED <<boxes, exceptDocker>>

DockerNext ==
  \/ \E arg \in PortArgs : DockerBox(arg)
  \/ \E p \in Ports : ForeignBind(p)
  \/ \E p \in Ports : ForeignClose(p)

SpecDocker == Init /\ [][DockerNext]_vars

DefaultBoxes == {i \in 1..Len(boxes) : ~boxes[i].arg.isRange}

ResultTexts == SeqsUpTo({"\\", "n", "a"}, MaxErrLen)

ResultKinds == {"error_before_exec", "error_in_exec", "result", "none"}

\* str.replace(old, new)
RECURSIVE Replace(_, _, _)
Replace(s, old, new) ==
  IF Len(s) < Len(old) THEN s
  ELSE IF IsPrefix(old, s)
    THEN new \o Replace(SubSeq(s, Len(old) + 1, Len(s)), old, new)
    ELSE <<Head(s)>> \o Replace(Tail(s), old, new)

\* the content of the err chunk: stream_exec replaces a backslash followed
\* by n with a newline, astream_exec yields the text as it is
ErrContent(mode, txt) ==
  IF mode = "sync" THEN Replace(txt, <<"\\", "n">>, <<"\n">>) ELSE txt

\* the chunks yielded after the polling loop
FinalChunks(mode, kind, txt) ==
  IF kind \in {"error_before_exec", "error_in_exec"}
    THEN <<ExecChunk("err", ErrContent(mode, txt))>>
  ELSE IF kind = "result" THEN <<ExecChunk("txt", txt)>>
  ELSE <<>>

\* RemoteFile.path: upload gives remote_file_path, aupload gives file_path,
\* the result of os.path.join(self.cwd, file_name)
UploadedPath(mode, name) == IF mode = "sync" THEN name ELSE PathJoin(Cwd, name)

\* one cell, run to its end by stream_exec and by astream_exec
ExecBoth(kind, txt) ==
  /\ parity' = [op |-> kind, arg |-> txt,
                sync |-> FinalChunks("sync", kind, txt),
                async |-> FinalChunks("async", kind, txt)]
  /\ UNCHANGED exceptParity

\* one file, uploaded by upload and by aupload
UploadBoth(name) ==
  /\ parity' = [op |-> "upload", arg |-> name,
                sync |-> UploadedPath("sync", name),
                async |-> UploadedPath("async", name)]
  /\ UNCHANGED exceptParity

ParityNext ==
  \/ \E kind \in ResultKinds, txt \in ResultTexts : ExecBoth(kind, txt)
  \/ \E name \in PathNames : UploadBoth(name)

SpecParity == Init /\ [][ParityNext]_vars

\* C23: stream_exec and astream_exec deliver the same chunks, the final err
\* chunk with the same content, and upload and aupload return the same
\* path, relative to the working directory.
C23_SyncAsyncParity == parity.sync = parity.async

(***************************************************************************)
(* run / arun and the kernel's messages.  For a request the kernel sends   *)
(* status busy, the cell's output messages and status idle, each with the  *)
(* request's msg_id as parent; the websocket keeps what is not read.  The  *)
(* content of a message is named by its parent and its position.           *)
(***************************************************************************)
OutputTypes == {"stream", "execute_result", "display_data", "error"}

\* the output messages of one cell: an error ends the cell
CellOutputs ==
  {outs \in SeqsUpTo(OutputTypes, MaxOutputs) :
     \A k \in 1..(Len(outs) - 1) : outs[k] # "error"}

Message(type, parent, k) == [msg_type |-> type, parent |-> parent, k |-> k]

\* what the kernel sends for the request `id` whose cell makes `outs`
KernelMessages(id, outs) ==
  <<Message("status_busy", id, 0)>>
    \o [k \in 1..Len(outs) |-> Message(outs[k], id, k)]
    \o <<Message("status_idle", id, Len(outs) + 1)>>

\* the branches of the receive loop that return: display_data whatever its
\* parent, status idle and error of the own request
EndsRun(msg, id) ==
  \/ msg.msg_type = "display_data"
  \/ msg.msg_type = "status_idle" /\ msg.parent = id
  \/ msg.msg_type = "error" /\ msg.parent = id

\* the branches that add to `result`: stream and execute_result of the own
\* request
AddsToResult(msg, id) ==
  /\ msg.msg_type \in {"stream", "execute_result"}
  /\ msg.parent = id

OutputType(msg) ==
  CASE msg.msg_type = "display_data" -> "image/png"
    [] msg.msg_type = "error" -> "error"
    [] OTHER -> "text"

\* run(code): the execute_request is sent, the kernel will answer it
RunSend(outs) ==
  /\ msg_id = 0
  /\ sent < MaxRuns
  /\ sent' = sent + 1
  /\ msg_id' = sent + 1
  /\ result' = <<>>
  /\ unread' = unread \o KernelMessages(sent + 1, outs)
  /\ UNCHANGED <<outputs, exceptMsg>>

\* one pass of `while True`: ws.recv() and the if / elif chain
RunRecv ==
  /\ msg_id # 0
  /\ unread # <<>>
  /\ LET msg == Head(unread)
     IN  /\ unread' = Tail(unread)
         /\ IF EndsRun(msg, msg_id)
              THEN /\ outputs' = Append(outputs,
                        [msg_id |-> msg_id, type |-> OutputType(msg),
                         content |-> IF msg.msg_type = "status_idle"
                                       THEN result ELSE <<msg>>,
                         endedBy |-> msg])
                   /\ msg_id' = 0
                   /\ UNCHANGED result
              ELSE /\ result' = IF AddsToResult(msg, msg_id)
                                  THEN Append(result, msg) ELSE result
                   /\ UNCHANGED <<msg_id, outputs>>
  /\ UNCHANGED <<sent, exceptMsg>>

MsgNext ==
  \/ \E outs \in CellOutputs : RunSend(outs)
  \/ RunRecv

SpecMsg == Init /\ [][MsgNext]_vars

\* C25: only messages of the run's own request end it or are part of its
\* result.
C25_OwnMessagesOnly ==
  \A i \in 1..Len(outputs) :
    /\ outputs[i].endedBy.parent = outputs[i].msg_id
    /\ \A k \in 1..Len(outputs[i].content) :
         outputs[i].content[k].parent = outputs[i].msg_id

(***************************************************************************)
(* stream_run / astream_run of the jupyter-client LocalBox: every message  *)
(* the output hook receives is queued, and the generator yields            *)
(* _parse_message of each.                                                 *)
(***************************************************************************)
\* the end-of-execution signal: msg_queue.put(None)
EndSignal == [msg_type |-> "None", text |-> <<>>, data |-> {}]

MsgTexts == { <<"a">>, <<" ", "a", " ">> }

\* the kernel's iopub messages: text is content.text (stream), the
\* text/plain rendering (execute_result, display_data) or ename: evalue
\* (error); data holds the keys of content.data
HookMessages ==
  {[msg_type |-> "stream", text |-> t, data |-> {}] : t \in MsgTexts}
  \cup {[msg_type |-> "execute_result", text |-> t, data |-> {"text/plain"}] :
          t \in MsgTexts}
  \cup {[msg_type |-> "display_data", text |-> <<"a">>, data |-> d] :
          d \in {{"image/png", "text/plain"}, {"text/plain"}, {}}}
  \cup {[msg_type |-> "error", text |-> <<"a">>, data |-> {}],
        [msg_type |-> "status", text |-> <<>>, data |-> {}]}

\* str.strip()
RECURSIVE LStrip(_)
LStrip(s) == IF s # <<>> /\ Head(s) = " " THEN LStrip(Tail(s)) ELSE s

RECURSIVE RStrip(_)
RStrip(s) ==
  IF s # <<>> /\ s[Len(s)] = " " THEN RStrip(SubSeq(s, 1, Len(s) - 1)) ELSE s

Strip(s) == RStrip(LStrip(s))

CodeBoxOutput(type, content) == [type |-> type, content |-> content]

\* _parse_message: the execute_result branch builds a CodeBoxOutput and does
\* not return it, so the function goes on to its last line; the text/plain
\* branch of display_data reads msg["data"], a key the message does not have
parse_message(msg) ==
  CASE msg.msg_type = "stream" -> CodeBoxOutput("stream", Strip(msg.text))
    [] msg.msg_type = "execute_result" -> CodeBoxOutput("empty", <<>>)
    [] msg.msg_type = "display_data" ->
         IF "image/png" \in msg.data THEN CodeBoxOutput("image/png", <<"p">>)
         ELSE IF "text/plain" \in msg.data THEN CodeBoxOutput("KeyError", <<>>)
         ELSE CodeBoxOutput("error", <<"Could not parse output">>)
    [] msg.msg_type = "error" -> CodeBoxOutput("error", msg.text)
    [] OTHER -> CodeBoxOutput("empty", <<>>)

\* stream_run(code) / astream_run(code) up to the loop: the queue is made
\* and the execution thread (task) is started
StreamRunCall(mode) ==
  /\ streamPc = "idle"
  /\ streamMode' = mode
  /\ executing' = TRUE
  /\ streamPc' = "running"
  /\ UNCHANGED <<msg_queue, consumed, exceptStreamRun>>

\* output_hook(msg), called by execute_interactive in the execution thread
\* (task)
OutputHook(msg) ==
  /\ executing
  /\ Len(msg_queue) + Len(consumed) < MaxHooked
  /\ msg_queue' = Append(msg_queue, msg)
  /\ UNCHANGED <<streamMode, executing, streamPc, consumed, exceptStreamRun>>

\* execute_interactive returns: stream_run's thread goes on to
\* msg_queue.put(None); the task of astream_run is done and puts nothing
ExecutionEnds ==
  /\ executing
  /\ executing' = FALSE
  /\ msg_queue' = IF streamMode = "sync" THEN Append(msg_queue, EndSignal)
                  ELSE msg_queue
  /\ UNCHANGED <<streamMode, streamPc, consumed, exceptStreamRun>>

\* astream_run: `while not execution_task.done() or not msg_queue.empty()`
\* is tested; the body starts with `await msg_queue.get()`
AstreamTest ==
  /\ streamMode = "async"
  /\ streamPc = "running"
  /\ streamPc' = IF executing \/ msg_queue # <<>> THEN "waiting" ELSE "ended"
  /\ UNCHANGED <<msg_queue, streamMode, executing, consumed, exceptStreamRun>>

\* a message is taken from the queue and _parse_message of it is yielded:
\* stream_run's msg_queue.get() with the break on None, astream_run's
\* `await msg_queue.get()` coming back
StreamRunGet ==
  /\ streamPc = (IF streamMode = "sync" THEN "running" ELSE "waiting")
  /\ streamMode # "none"
  /\ msg_queue # <<>>
  /\ LET msg == Head(msg_queue)
         out == parse_message(msg)
     IN  /\ msg_queue' = Tail(msg_queue)
         /\ IF msg = EndSignal
              THEN streamPc' = "ended" /\ UNCHANGED consumed
              ELSE /\ consumed' = Append(consumed, [msg |-> msg, out |-> out])
                   /\ streamPc' = IF out.type = "KeyError" THEN "raised"
                                  ELSE "running"
  /\ UNCHANGED <<streamMode, executing, exceptStreamRun>>

StreamRunNext ==
  \/ \E mode \in {"sync", "async"} : StreamRunCall(mode)
  \/ \E msg \in HookMessages : OutputHook(msg)
  \/ ExecutionEnds
  \/ AstreamTest
  \/ StreamRunGet

SpecStreamRun == Init /\ [][StreamRunNext]_vars

\* C26: in streaming mode every execute_result message reaches the consumer
\* as a text output holding the message's text/plain rendering (as it is, or
\* stripped as the collecting form does).
C26_ExecuteResultDelivered ==
  \A i \in 1..Len(consumed) :
    consumed[i].msg.msg_type = "execute_result" =>
      /\ consumed[i].out.type = "text"
      /\ consumed[i].out.content \in
           {consumed[i].msg.text, Strip(consumed[i].msg.text)}

\* C32: astream_run is never blocked for good: it does not wait on an empty
\* message queue once the execution has finished.
C32_NeverBlockedOnEmptyQueue ==
  ~(streamMode = "async" /\ streamPc = "waiting" /\ msg_queue = <<>> /\ ~executing)

(***************************************************************************)
(* Session start.  LocalBox.start / astart spawn the kernel gateway and    *)
(* probe its URL until it answers 200, then _connect creates a kernel and  *)
(* opens the websocket; DockerBox._wait_for_startup probes GET / of the    *)
(* container.  A probe is answered with 200, refused (no listener), or     *)
(* left hanging (accepted and never answered).                             *)
(***************************************************************************)
ProbeSleep == 1

ConnectAttempts == 5

ConnectSleep == 5

StartKinds == {"start", "astart", "docker"}

ProbeAnswers == {"200", "refused", "hang"}

\* time.sleep(n), the count saturating at MaxWait
Slept(n) == IF waited + n > MaxWait THEN MaxWait ELSE waited + n

\* what the probe loop does with an answer: requests raises ReadTimeout and
\* aiohttp TimeoutError on a hanging request, neither is caught; httpx's
\* timeout is an HTTPError and is caught
AfterProbe(kind, answer) ==
  IF answer = "200" THEN (IF kind = "docker" THEN "started" ELSE "connect")
  ELSE IF answer = "hang" /\ kind # "docker" THEN "raised"
  ELSE "sleep"

\* start() / astart() up to the probe loop, DockerBox.__init__ up to
\* _wait_for_startup
StartCall(kind) ==
  /\ startPc = "idle"
  /\ startKind' = kind
  /\ startPc' = "probe"
  /\ UNCHANGED <<waited, tries, exceptStart>>

\* one pass of `while True`: the GET and what follows from its answer
ProbeReadiness(answer) ==
  /\ startPc = "probe"
  /\ startPc' = AfterProbe(startKind, answer)
  /\ UNCHANGED <<startKind, waited, tries, exceptStart>>

\* time.sleep(1) / await asyncio.sleep(1) ends, the loop probes again
ProbeSleepOver ==
  /\ startPc = "sleep"
  /\ waited' = Slept(ProbeSleep)
  /\ startPc' = "probe"
  /\ UNCHANGED <<startKind, tries, exceptStart>>

\* _connect, one pass of `for attempt in range(5)` of the POST /kernels loop
\* (startPc = "connect") or of the websocket loop (startPc = "ws")
ConnectAttempt(ok) ==
  /\ startPc \in {"connect", "ws"}
  /\ IF ok
       THEN /\ startPc' = IF startPc = "connect" THEN "ws" ELSE "started"
            /\ tries' = 0
            /\ UNCHANGED waited
       ELSE /\ waited' = Slept(ConnectSleep)
            /\ tries' = tries + 1
            /\ startPc' = IF tries + 1 = ConnectAttempts THEN "raised" ELSE startPc
  /\ UNCHANGED <<startKind, exceptStart>>

StartNext ==
  \/ \E kind \in StartKinds : StartCall(kind)
  \/ \E answer \in ProbeAnswers : ProbeReadiness(answer)
  \/ ProbeSleepOver
  \/ \E ok \in BOOLEAN : ConnectAttempt(ok)

SpecStart == Init /\ [][StartNext]_vars

\* the caller's thread and the event loop keep running: a step that can be
\* taken is taken
SpecStartFair == SpecStart /\ WF_vars(StartNext)

\* C27: a session start ends: it returns or fails with a start error, also
\* when the readiness probe is never answered.
C27_StartEnds == (startPc = "probe") ~> (startPc \in {"started", "raised"})

(***************************************************************************)
(* The kernel gateways one LocalBox spawns.  start() runs when the host    *)
(* calls it and when run() meets a closed connection; the n-th start       *)
(* spawns the process n and opens the websocket n.                         *)
(***************************************************************************)
\* start() / astart(): the gateway is spawned, its pid appended to
\* _jupyter_pids, the probe answered, _connect opening a new websocket; what
\* self.jupyter and self.ws held before is overwritten.  astart creates a
\* ClientSession first.
LocalBoxStart(async) ==
  /\ Len(jupyter_pids) < MaxStarts
  /\ LET pid == Len(jupyter_pids) + 1
     IN  /\ running' = running \cup {pid}
         /\ jupyter' = pid
         /\ jupyter_pids' = Append(jupyter_pids, pid)
         /\ ws' = pid
         /\ openSockets' = openSockets \cup {pid}
         /\ IF async
              THEN /\ aiohttp_session' = pid
                   /\ openSessions' = openSessions \cup {pid}
              ELSE UNCHANGED <<aiohttp_session, openSessions>>
  /\ lastOp' = "start"
  /\ UNCHANGED exceptStop

\* a gateway process ends by itself; its websocket is closed by the peer
GatewayExits(pid) ==
  /\ pid \in running
  /\ running' = running \ {pid}
  /\ openSockets' = openSockets \ {pid}
  /\ UNCHANGED <<jupyter, jupyter_pids, ws, aiohttp_session, openSessions, lastOp,
                 exceptStop>>

\* `for pid in self._jupyter_pids: os.kill(pid, SIGTERM)` inside
\* `try ... except ProcessLookupError: pass`: the loop ends at the first pid
\* that is not running
RECURSIVE KillInOrder(_, _)
KillInOrder(pids, alive) ==
  IF pids = <<>> \/ Head(pids) \notin alive THEN alive
  ELSE KillInOrder(Tail(pids), alive \ {Head(pids)})

\* stop(): terminate self.jupyter when it is set, else kill the recorded
\* pids; close self.ws when it is set
LocalBoxStop ==
  /\ lastOp # "none"
  /\ IF jupyter # None
       THEN running' = running \ {jupyter}
       ELSE running' = KillInOrder(jupyter_pids, running)
  /\ jupyter' = None
  /\ openSockets' = (openSockets \ {ws}) \cap running'
  /\ ws' = None
  /\ lastOp' = "stop"
  /\ UNCHANGED <<jupyter_pids, aiohttp_session, openSessions, exceptStop>>

\* astop(): terminate and kill self.jupyter when it is set; close self.ws
\* and self.aiohttp_session when they are set
LocalBoxAstop ==
  /\ lastOp # "none"
  /\ running' = IF jupyter # None THEN running \ {jupyter} ELSE running
  /\ jupyter' = None
  /\ openSockets' = (openSockets \ {ws}) \cap running'
  /\ ws' = None
  /\ openSessions' = openSessions \ {aiohttp_session}
  /\ aiohttp_session' = None
  /\ lastOp' = "stop"
  /\ UNCHANGED <<jupyter_pids, exceptStop>>

StopNext ==
  \/ \E async \in BOOLEAN : LocalBoxStart(async)
  \/ \E pid \in 1..MaxStarts : GatewayExits(pid)
  \/ LocalBoxStop
  \/ LocalBoxAstop

SpecStop == Init /\ [][StopNext]_vars

\* C28: when stop() has returned, no kernel gateway this session spawned is
\* running and no websocket it opened is open, however often start() ran.
C28_StopReleasesAll ==
  lastOp = "stop" => (running = {} /\ openSockets = {})

(***************************************************************************)
(* A client session (box/base.py BaseBox, box/remote.py RemoteBox,         *)
(* box/local.py and box/localbox.py LocalBox) and its last_interaction.    *)
(***************************************************************************)
BoxKinds == {"remote", "local"}

PublicOps ==
  {"start", "status", "run", "upload", "download", "install", "list_files",
   "restart", "stop"}

\* the operation runs self._update(): RemoteBox does in codebox_request and
\* acodebox_request, which every operation goes through except the start of
\* a session that has no id yet (base_request); LocalBox never does
CallsUpdate(kind, op, hasId) ==
  /\ kind = "remote"
  /\ (op = "start" => hasId)

\* BaseBox.__init__: self.last_interaction = datetime.now()
NewBox(kind) ==
  /\ boxKind = "none"
  /\ boxKind' = kind
  /\ box_last_interaction' = wall
  /\ UNCHANGED <<hasSessionId, wall, lastCall, exceptSession>>

WallTick ==
  /\ wall < MaxWall
  /\ wall' = wall + 1
  /\ UNCHANGED <<boxKind, hasSessionId, box_last_interaction, lastCall,
                 exceptSession>>

\* a public operation (or its async form) of the session
PublicCall(op) ==
  /\ boxKind # "none"
  /\ lastCall' = [op |-> op, at |-> wall]
  /\ box_last_interaction' =
       IF CallsUpdate(boxKind, op, hasSessionId) THEN wall
       ELSE box_last_interaction
  /\ hasSessionId' = (hasSessionId \/ (boxKind = "remote" /\ op = "start"))
  /\ UNCHANGED <<boxKind, wall, exceptSession>>

SessionNext ==
  \/ \E kind \in BoxKinds : NewBox(kind)
  \/ WallTick
  \/ \E op \in PublicOps : PublicCall(op)

SpecSession == Init /\ [][SessionNext]_vars

\* C29: every public operation of a client session, remote or local, sets
\* last_interaction to the time of the call.
C29_EveryOperationUpdates ==
  lastCall.op # "none" => box_last_interaction = lastCall.at

(***************************************************************************)
(* RemoteFile.aget_content.  The file is the chunks 1..MaxFileChunks that  *)
(* astream_download yields; the calls are coroutines of one event loop,    *)
(* each running from one await to the next.                                *)
(***************************************************************************)
FileContent == [k \in 1..MaxFileChunks |-> k]

\* aget_content up to its first await: when _content is None it becomes b""
\* and the download starts, else _content is returned as it is
AgetContent(c) ==
  /\ agets[c].pc = "idle"
  /\ IF content_ = NoContent
       THEN /\ content_' = <<>>
            /\ agets' = [agets EXCEPT ![c].pc = "downloading"]
       ELSE /\ agets' = [agets EXCEPT ![c] = [pc |-> "returned", got |-> 0,
                                              value |-> content_]]
            /\ UNCHANGED content_
  /\ UNCHANGED exceptContent

\* one pass of `async for chunk in ...`: self._content += chunk, or the
\* stream is exhausted and self._content is returned
AgetChunk(c) ==
  /\ agets[c].pc = "downloading"
  /\ IF agets[c].got < MaxFileChunks
       THEN /\ content_' = Append(content_, agets[c].got + 1)
            /\ agets' = [agets EXCEPT ![c].got = @ + 1]
       ELSE /\ agets' = [agets EXCEPT ![c].pc = "returned", ![c].value = content_]
            /\ UNCHANGED content_
  /\ UNCHANGED exceptContent

\* astream_download raises (connection lost, timeout) while the call waits
\* for a chunk
AgetFails(c) ==
  /\ agets[c].pc = "downloading"
  /\ agets' = [agets EXCEPT ![c].pc = "raised"]
  /\ UNCHANGED <<content_, exceptContent>>

ContentNext ==
  \/ \E c \in Getters : AgetContent(c)
  \/ \E c \in Getters : AgetChunk(c)
  \/ \E c \in Getters : AgetFails(c)

SpecContent == Init /\ [][ContentNext]_vars

\* C33: every aget_content call that returns gives the complete file, and
\* while no download is running the cached content is absent or complete.
C33_CompleteContentOnly ==
  /\ \A c \in Getters : agets[c].pc = "returned" => agets[c].value = FileContent
  /\ (\A c \in Getters : agets[c].pc # "downloading") =>
       content_ \in {NoContent, FileContent}

(***************************************************************************)
(* RemoteBox.astream_exec when the stream raises RuntimeError.  The try    *)
(* block spans the request and every yield; its handler re-raises unless   *)
(* the text holds 'loop is closed', sleeps 0.1 s and yields from a new     *)
(* self.astream_exec(code, ...).                                           *)
(***************************************************************************)
\* the consumer asks for the first item: the body starts, POST /exec
AexecBegin ==
  /\ aexecPc = "idle"
  /\ aexecPc' = "streaming"
  /\ posts' = 1
  /\ UNCHANGED <<given, lateRestart, exceptAexec>>

\* a frame is decoded and yielded
AexecYield ==
  /\ aexecPc = "streaming"
  /\ given < MaxGiven
  /\ given' = given + 1
  /\ UNCHANGED <<aexecPc, posts, lateRestart, exceptAexec>>

\* the response body ends
AexecEnd ==
  /\ aexecPc = "streaming"
  /\ aexecPc' = "done"
  /\ UNCHANGED <<posts, given, lateRestart, exceptAexec>>

\* a RuntimeError reaches the handler: re-raised, or 'loop is closed' and
\* anyio.sleep(0.1)
AexecRuntimeError(loopClosed) ==
  /\ aexecPc = "streaming"
  /\ aexecPc' = IF loopClosed THEN "sleeping" ELSE "raised"
  /\ UNCHANGED <<posts, given, lateRestart, exceptAexec>>

\* the sleep is over: the inner astream_exec starts and posts the code again
AexecRestart ==
  /\ aexecPc = "sleeping"
  /\ aexecPc' = "streaming"
  /\ posts' = IF posts < MaxPosts THEN posts + 1 ELSE posts
  /\ lateRestart' = (lateRestart \/ given > 0)
  /\ UNCHANGED <<given, exceptAexec>>

AexecNext ==
  \/ AexecBegin
  \/ AexecYield
  \/ AexecEnd
  \/ \E loopClosed \in BOOLEAN : AexecRuntimeError(loopClosed)
  \/ AexecRestart

SpecAexec == Init /\ [][AexecNext]_vars

\* the event loop keeps running the generator
SpecAexecFair == SpecAexec /\ WF_vars(AexecNext)

\* C34: astream_exec ends also when the 'loop is closed' error keeps
\* occurring, and it never submits the code again once chunks were delivered.
C34_RestartsBoundedAndEarly ==
  /\ [](~lateRestart)
  /\ (aexecPc = "streaming") ~> (aexecPc \in {"done", "raised"})

\* ---------------------------------------------------------------------------
\* RemoteBox: the session id, start() and astart()
\* ---------------------------------------------------------------------------

MaxStartCalls == 3
MaxPolls == 2

\* A start that asks for a session whatever id the box carries.
AlwaysTemp(sid) == TRUE

\* The test of start and astart: the box still carries its temporary id.
CarriesTempId(sid) == sid = TempId

\* RemoteBox(), RemoteBox.from_id(sid): a falsy id leaves the temporary one.
RemoteBoxInit(sid) ==
  /\ rbPc = "none"
  /\ rbSessionId' = (IF sid = "" THEN TempId ELSE sid)
  /\ rbAssigned' = (IF sid = "" THEN TempId ELSE sid)
  /\ \E st \in {"starting", "started"} :
       serverStatus' = (IF sid = "" THEN serverStatus ELSE st)
  /\ rbPc' = "idle"
  /\ UNCHANGED <<rbAllocated, rbRequestedWith, rbStarts, rbPolls, rbAsync>>
  /\ UNCHANGED exceptSessionId

\* start() / astart() on a box with an assigned id: poll the status.
StartPolls(async) ==
  /\ rbPc = "idle"
  /\ rbStarts < MaxStartCalls
  /\ ~CarriesTempId(rbSessionId)
  /\ rbStarts' = rbStarts + 1
  /\ rbAsync' = async
  /\ rbPolls' = 0
  /\ rbPc' = (IF serverStatus = "starting" THEN "polling" ELSE "idle")
  /\ UNCHANGED <<rbSessionId, rbAllocated, rbRequestedWith, rbAssigned,
                 serverStatus>>
  /\ UNCHANGED exceptSessionId

\* start() / astart() on a box with the temporary id: GET /codebox/start.
\* The request either raises and leaves the id, or returns a fresh id.
StartAllocates(async) ==
  /\ rbPc = "idle"
  /\ rbStarts < MaxStartCalls
  /\ CarriesTempId(rbSessionId)
  /\ rbStarts' = rbStarts + 1
  /\ rbAsync' = async
  /\ rbRequestedWith' = rbRequestedWith \cup {rbSessionId}
  /\ \/ /\ \E id \in SessionIds \ (rbAllocated \cup {rbSessionId}) :
             /\ rbAllocated' = rbAllocated \cup {id}
             /\ rbSessionId' = id
             /\ rbAssigned' = (IF rbAssigned = TempId THEN id ELSE rbAssigned)
        /\ \E st \in {"starting", "started"} : serverStatus' = st
     \/ UNCHANGED <<rbAllocated, rbSessionId, rbAssigned, serverStatus>>
  /\ UNCHANGED <<rbPc, rbPolls>>
  /\ UNCHANGED exceptSessionId

\* while self.status().status == "starting": sleep(1)
StartPollAgain ==
  /\ rbPc = "polling"
  /\ serverStatus = "starting"
  /\ rbPolls < MaxPolls
  /\ rbPolls' = rbPolls + 1
  /\ UNCHANGED <<rbPc, rbSessionId, rbAllocated, rbRequestedWith, rbAssigned,
                 rbStarts, rbAsync, serverStatus>>
  /\ UNCHANGED exceptSessionId

\* The loop ends: return self.status()
StartPollDone ==
  /\ rbPc = "polling"
  /\ serverStatus # "starting"
  /\ rbPc' = "idle"
  /\ UNCHANGED <<rbSessionId, rbAllocated, rbRequestedWith, rbAssigned,
                 rbStarts, rbPolls, rbAsync, serverStatus>>
  /\ UNCHANGED exceptSessionId

\* The server finishes starting the session.
SessionStarted ==
  /\ serverStatus = "starting"
  /\ serverStatus' = "started"
  /\ UNCHANGED <<rbPc, rbSessionId, rbAllocated, rbRequestedWith, rbAssigned,
                 rbStarts, rbPolls, rbAsync>>
  /\ UNCHANGED exceptSessionId

SessionIdNext ==
  \/ \E sid \in SessionIds \cup {""} : RemoteBoxInit(sid)
  \/ \E async \in BOOLEAN : StartPolls(async)
  \/ \E async \in BOOLEAN : StartAllocates(async)
  \/ StartPollAgain
  \/ StartPollDone
  \/ SessionStarted

SpecSessionId == Init /\ [][SessionIdNext]_vars

\* C35: a RemoteBox allocates at most one server session over its start and
\* astart calls: /codebox/start is requested only while the box carries its
\* temporary id, and an id once assigned, by start or by from_id, stays.
C35_AtMostOneSession ==
  /\ Cardinality(rbAllocated) <= 1
  /\ rbRequestedWith \subseteq {TempId}
  /\ rbAssigned # TempId => rbSessionId = rbAssigned
  /\ (rbAssigned # TempId /\ rbAllocated # {}) => rbAllocated = {rbAssigned}

\* A box that was started, got its id from the server, and was started again.
C35_Witness ==
  /\ rbStarts >= 2
  /\ rbPc = "idle"
  /\ Cardinality(rbAllocated) = 1
  /\ rbSessionId \in rbAllocated

\* ---------------------------------------------------------------------------
\* The gateway with its idle timer: /exec streams and the timeout task run
\* as tasks of one event loop; only get_codebox, at the arrival of a
\* request, assigns last_interaction.
\* ---------------------------------------------------------------------------

\* the one /exec request the timer is watched with
TheExec == CHOOSE r \in ExecRequests : \A q \in ExecRequests : r <= q

GatewayTimerNext ==
  \/ \E cfg \in TimeoutValues : LifespanStart(cfg)
  \/ TimerWake
  \/ Tick
  \/ \E n \in 0..MaxWrites :
       timerPc \in {"sleeping", "returned"} /\ ExecRequest(TheExec, n)
  \/ timerPc # "exited" /\ CellPrint(TheExec)
  \/ timerPc # "exited" /\ CellReturn(TheExec)
  \/ timerPc # "exited" /\ Poll(TheExec)

SpecGatewayTimer == Init /\ [][GatewayTimerNext]_vars

\* C37: the idle timer never ends the gateway while the response of an /exec
\* is still streaming.
C37_NoExitWhileStreaming ==
  ~(timerPc = "exited" /\ InFlight # {})

\* ---------------------------------------------------------------------------
\* CodeBox of codeboxapi/box/codebox.py: every request goes through
\* codebox_request / acodebox_request, which run _update first.
\* ---------------------------------------------------------------------------

MaxClock == 3

\* the ids /codebox/start answers with
StartedIds == {1, 2}

\* the operations that go through codebox_request
RequestOps == {"status", "run", "upload", "download", "list_files", "stop"}

\* _update lets the request pass
Passes(sid) == ~(sid # None)

ClockTick ==
  /\ cbClock < MaxClock
  /\ cbClock' = cbClock + 1
  /\ UNCHANGED <<cbSessionId, cbLastInteraction, cbCall, exceptClient>>

\* start / astart: base_request GET /codebox/start, session_id = the id
CodeBoxStart(id) ==
  /\ cbSessionId' = id
  /\ UNCHANGED <<cbClock, cbLastInteraction, cbCall, exceptClient>>

\* status, run, upload, download, list_files, stop: _update raises or sets
\* last_interaction, then the request is made
CodeBoxRequest(op) ==
  /\ cbLastInteraction' = (IF Passes(cbSessionId) THEN cbClock
                           ELSE cbLastInteraction)
  /\ cbCall' = [op |-> op, id |-> cbSessionId, before |-> cbLastInteraction,
                at |-> cbClock,
                outcome |-> IF Passes(cbSessionId) THEN "requested"
                            ELSE "RuntimeError"]
  /\ UNCHANGED <<cbClock, cbSessionId, exceptClient>>

ClientNext ==
  \/ ClockTick
  \/ \E id \in StartedIds : CodeBoxStart(id)
  \/ \E op \in RequestOps : CodeBoxRequest(op)

SpecClient == Init /\ [][ClientNext]_vars

\* C38: a request is rejected with RuntimeError exactly when the box has no
\* session id, and then last_interaction is left as it was; on a started box
\* the request is made and last_interaction is the time of the call.
C38_RejectedExactlyWhenNotStarted ==
  cbCall.op # "none" =>
    /\ cbCall.outcome = "RuntimeError" <=> cbCall.id = None
    /\ cbCall.id = None => cbLastInteraction = cbCall.before
    /\ cbCall.id # None => cbLastInteraction = cbCall.at

\* ---------------------------------------------------------------------------
\* utils.raise_timeout: the deadline of stream_exec, upload and
\* stream_download of LocalBox.  Time is counted in units of 1/UnitsPerSecond
\* seconds; signal.alarm takes whole seconds.
\* ---------------------------------------------------------------------------

MaxElapsed == 6
MaxAlarmTimeout == 4

AlarmOps == {"stream_exec", "upload", "stream_download"}

AlarmTimeouts == {NoTimeout} \cup 1..MaxAlarmTimeout

\* int(timeout), in seconds
IntSeconds(t) == t \div UnitsPerSecond

\* with raise_timeout(timeout): signal.alarm(int(timeout)) replaces the
\* pending alarm; alarm(0) arms none
RaiseTimeoutEnter(op, t) ==
  /\ alarmPc \in {"idle", "finished", "timed_out"}
  /\ alarmPc' = "running"
  /\ alarmOp' = op
  /\ alarmTimeout' = t
  /\ alarmElapsed' = 0
  /\ alarmLeft' = (IF t # NoTimeout THEN IntSeconds(t) * UnitsPerSecond
                   ELSE alarmLeft)
  /\ UNCHANGED exceptAlarm

\* one time unit passes inside the with block; when the pending alarm is due
\* the handler raises TimeoutError and the finally block runs alarm(0)
OperationRuns ==
  /\ alarmPc = "running"
  /\ alarmElapsed < MaxElapsed
  /\ alarmElapsed' = alarmElapsed + 1
  /\ alarmLeft' = (IF alarmLeft > 0 THEN alarmLeft - 1 ELSE 0)
  /\ alarmPc' = (IF alarmLeft = 1 THEN "timed_out" ELSE "running")
  /\ UNCHANGED <<alarmOp, alarmTimeout, exceptAlarm>>

\* the with block ends: finally: if timeout is not None: signal.alarm(0)
OperationEnds ==
  /\ alarmPc = "running"
  /\ alarmPc' = "finished"
  /\ alarmLeft' = (IF alarmTimeout # NoTimeout THEN 0 ELSE alarmLeft)
  /\ UNCHANGED <<alarmOp, alarmTimeout, alarmElapsed, exceptAlarm>>

AlarmNext ==
  \/ \E op \in AlarmOps, t \in AlarmTimeouts : RaiseTimeoutEnter(op, t)
  \/ OperationRuns
  \/ OperationEnds

SpecAlarm == Init /\ [][AlarmNext]_vars

\* C39: every positive timeout arms a deadline: an operation given the
\* timeout t is never still running after more than t, and once it has
\* finished or timed out no alarm it armed is pending.
C39_EveryPositiveTimeoutArms ==
  alarmTimeout # NoTimeout =>
    /\ alarmPc = "running" => alarmElapsed <= alarmTimeout
    /\ alarmPc \in {"finished", "timed_out"} => alarmLeft = 0

\* ---------------------------------------------------------------------------
\* The bash kernel of LocalBox.stream_exec / astream_exec: the command runs in
\* a shell process with stdout and stderr as pipes; the driver reads stdout
\* to its end and then stderr.  A pipe holds PipeCapacity lines; a write to a
\* full pipe waits, a read from an empty pipe waits until the process exits.
\* ---------------------------------------------------------------------------

MaxCommandWrites == 4
PipeCapacity == 2

Commands == SeqsUpTo({"out", "err"}, MaxCommandWrites)

\* subprocess.Popen(code, shell=True, stdout=PIPE, stderr=PIPE)
BashSpawn(cmd) ==
  /\ driverPc = "idle"
  /\ command' = cmd
  /\ childPc' = "running"
  /\ driverPc' = "read_stdout"
  /\ UNCHANGED <<written_, outPipe, errPipe, bashChunks, exceptPipe>>

\* the process makes its next write, when the pipe has room for it
ChildWrites ==
  /\ childPc = "running"
  /\ written_ < Len(command)
  /\ LET line == <<command[written_ + 1], written_ + 1>>
     IN  IF line[1] = "out"
           THEN /\ Len(outPipe) < PipeCapacity
                /\ outPipe' = Append(outPipe, line)
                /\ UNCHANGED errPipe
           ELSE /\ Len(errPipe) < PipeCapacity
                /\ errPipe' = Append(errPipe, line)
                /\ UNCHANGED outPipe
  /\ written_' = written_ + 1
  /\ UNCHANGED <<command, childPc, driverPc, bashChunks, exceptPipe>>

\* the command has made all its writes and the process exits
ChildExits ==
  /\ childPc = "running"
  /\ written_ = Len(command)
  /\ childPc' = "exited"
  /\ UNCHANGED <<command, written_, outPipe, errPipe, driverPc, bashChunks,
                 exceptPipe>>

\* for c in process.stdout: yield ExecChunk(content=c.decode(), type="txt");
\* the loop ends at end-of-file, when the process has exited
ReadStdout ==
  /\ driverPc = "read_stdout"
  /\ IF outPipe # <<>>
       THEN /\ bashChunks' = Append(bashChunks, ExecChunk("txt", Head(outPipe)))
            /\ outPipe' = Tail(outPipe)
            /\ UNCHANGED driverPc
       ELSE /\ childPc = "exited"
            /\ driverPc' = "read_stderr"
            /\ UNCHANGED <<bashChunks, outPipe>>
  /\ UNCHANGED <<command, written_, childPc, errPipe, exceptPipe>>

\* for c in process.stderr: yield ExecChunk(content=c.decode(), type="err")
ReadStderr ==
  /\ driverPc = "read_stderr"
  /\ IF errPipe # <<>>
       THEN /\ bashChunks' = Append(bashChunks, ExecChunk("err", Head(errPipe)))
            /\ errPipe' = Tail(errPipe)
            /\ UNCHANGED driverPc
       ELSE /\ childPc = "exited"
            /\ driverPc' = "done"
            /\ UNCHANGED <<bashChunks, errPipe>>
  /\ UNCHANGED <<command, written_, childPc, outPipe, exceptPipe>>

PipeNext ==
  \/ \E cmd \in Commands : BashSpawn(cmd)
  \/ ChildWrites
  \/ ChildExits
  \/ ReadStdout
  \/ ReadStderr

SpecPipe == Init /\ [][PipeNext]_vars

\* the process and the driver run whenever they can
SpecPipeFair == SpecPipe /\ WF_vars(PipeNext)

\* C40: a bash exec of a command that ends by itself ends too, with every
\* line the command writes delivered, whatever the command writes to stdout
\* and stderr.
C40_BashExecEnds ==
  (driverPc = "read_stdout") ~>
    (driverPc = "done" /\ Len(bashChunks) = Len(command))

====
